---- MODULE Spec2Model ----
(***************************************************************************)
(* Match-scoring engine of TRIDENT-BACKEND                                 *)
(* (backend/src/services/matchingService.js).                              *)
(*                                                                         *)
(* JavaScript values are tagged records: Null (null / undefined / absent), *)
(* Str(s) with s a sequence of one-character strings, Num(n), Date(d),     *)
(* Obj(fields) and NaN.  A score is an integer number of TENTHS of a point *)
(* (12.5 points is 125): every sub-score of the source is a multiple of    *)
(* 0.1 because it is produced by Math.round(x * 10) / 10.  A ratio         *)
(* (Jaccard similarity, range overlap) is an exact fraction [n, d];        *)
(* Math.round on a fraction is round-half-up, as in JavaScript.            *)
(***************************************************************************)
EXTENDS Integers, Sequences, FiniteSets, TLC

VARIABLES
    project,      \* the project record handed to a scorer
    researcher,   \* the researcher profile record handed to a scorer
    args,         \* the arguments of a utility function under test
    ret,          \* the value returned by the operation that ran
    pc,           \* "ready" before the operation ran, "done" after
    store,        \* the tables of the data layer
    queries,      \* the data-layer calls the operation made, in order
    fetched,      \* the candidate rows in the order the data layer returned them
    called,       \* the finder calls a request handler made, with their options
    history       \* what the earlier operations of a sequence returned

dataVars == <<store, queries, fetched, called, history>>

vars == <<project, researcher, args, ret, pc, dataVars>>

(***************************************************************************)
(* JavaScript values                                                       *)
(***************************************************************************)
Null == [t |-> "null"]
NaN == [t |-> "nan"]
Str(s) == [t |-> "str", v |-> s]
Num(n) == [t |-> "num", v |-> n]
Date(d) == [t |-> "date", v |-> d]
Obj(fields) == [t |-> "obj", v |-> fields]

\* JavaScript truthiness: null, undefined, NaN, 0 and '' are falsy.
Truthy(x) ==
    CASE x.t = "null" -> FALSE
      [] x.t = "nan" -> FALSE
      [] x.t = "num" -> x.v # 0
      [] x.t = "str" -> x.v # <<>>
      [] OTHER -> TRUE

\* a || b
Or(a, b) == IF Truthy(a) THEN a ELSE b

\* parseFloat / parseInt of a stored numeric column: a number, or NaN.
ParseNum(x) == IF x.t = "num" THEN x ELSE NaN

\* Math.round(n / d) for d > 0: round half up.
Round(n, d) == (2 * n + d) \div (2 * d)

Min(a, b) == IF a <= b THEN a ELSE b
Max(a, b) == IF a >= b THEN a ELSE b

\* A ratio n / d with d > 0.
Frac(n, d) == [n |-> n, d |-> d]
Zero == Frac(0, 1)
FracEq(f, g) == f.n * g.d = g.n * f.d
FracLe(f, g) == f.n * g.d <= g.n * f.d

(***************************************************************************)
(* Text-set utilities                                                      *)
(***************************************************************************)
Lower(c) ==
    CASE c = "A" -> "a"
      [] c = "B" -> "b"
      [] c = "C" -> "c"
      [] OTHER -> c

\* String.prototype.toLowerCase
ToLowerCase(s) == [i \in 1..Len(s) |-> Lower(s[i])]

RECURSIVE TrimStart(_)
TrimStart(s) ==
    IF s # <<>> /\ Head(s) = " " THEN TrimStart(Tail(s)) ELSE s

RECURSIVE TrimEnd(_)
TrimEnd(s) ==
    IF s # <<>> /\ s[Len(s)] = " " THEN TrimEnd(SubSeq(s, 1, Len(s) - 1)) ELSE s

\* String.prototype.trim
Trim(s) == TrimEnd(TrimStart(s))

\* String.prototype.split(','): always at least one piece.
RECURSIVE SplitComma(_)
SplitComma(s) ==
    IF \E i \in 1..Len(s) : s[i] = ","
    THEN LET k == CHOOSE i \in 1..Len(s) :
                      s[i] = "," /\ \A j \in 1..(i - 1) : s[j] # ","
         IN <<SubSeq(s, 1, k - 1)>> \o SplitComma(SubSeq(s, k + 1, Len(s)))
    ELSE <<s>>

\* The elements of an array, as a Set.
Range(q) == {q[i] : i \in 1..Len(q)}

\* Array.prototype.includes
Includes(q, x) == \E i \in 1..Len(q) : q[i] = x

parseCommaSeparated(str) ==
    IF ~Truthy(str) \/ str.t # "str"
    THEN <<>>
    ELSE LET pieces == SplitComma(str.v)
             items == [i \in 1..Len(pieces) |-> ToLowerCase(Trim(pieces[i]))]
         IN SelectSeq(items, LAMBDA item : Len(item) > 0)

\* Mutant: the arrays are never turned into Sets, so repeated elements count.
calculateJaccardSimilarity_NoSets(set1, set2) ==
    LET matched == SelectSeq(set1, LAMBDA x : Includes(set2, x))
    IN IF Len(set1) = 0 \/ Len(set2) = 0 THEN Zero
       ELSE Frac(Len(matched), Len(set1) + Len(set2) - Len(matched))

calculateJaccardSimilarity(set1, set2) ==
    LET s1 == Range(set1)
        s2 == Range(set2)
        intersection == {x \in s1 : x \in s2}
        union == s1 \cup s2
    IN IF Cardinality(s1) = 0 /\ Cardinality(s2) = 0 THEN Zero
       ELSE IF Cardinality(s1) = 0 \/ Cardinality(s2) = 0 THEN Zero
       ELSE Frac(Cardinality(intersection), Cardinality(union))

\* Mutant: the overlap is divided by the sum of the two lengths, not their average.
checkRangeOverlap_SumOfSizes(range1, range2) ==
    IF ~Truthy(range1.min) \/ ~Truthy(range1.max)
         \/ ~Truthy(range2.min) \/ ~Truthy(range2.max)
    THEN Zero
    ELSE LET overlapMin == Max(range1.min.v, range2.min.v)
             overlapMax == Min(range1.max.v, range2.max.v)
         IN IF overlapMin >= overlapMax THEN Zero
            ELSE Frac(overlapMax - overlapMin,
                      (range1.max.v - range1.min.v) + (range2.max.v - range2.min.v))

checkRangeOverlap(range1, range2) ==
    IF ~Truthy(range1.min) \/ ~Truthy(range1.max)
         \/ ~Truthy(range2.min) \/ ~Truthy(range2.max)
    THEN Zero
    ELSE LET overlapMin == Max(range1.min.v, range2.min.v)
             overlapMax == Min(range1.max.v, range2.max.v)
             overlapSize == overlapMax - overlapMin
             range1Size == range1.max.v - range1.min.v
             range2Size == range2.max.v - range2.min.v
         IN IF overlapMin >= overlapMax THEN Zero
            \* overlapSize / ((range1Size + range2Size) / 2), capped at 1
            ELSE IF 2 * overlapSize <= range1Size + range2Size
                 THEN Frac(2 * overlapSize, range1Size + range2Size)
                 ELSE Frac(1, 1)

(***************************************************************************)
(* Factor scorers (results in tenths of a point)                           *)
(***************************************************************************)
calculateExpertiseScore(projectExpertise, researcherExpertise) ==
    LET projectTags == parseCommaSeparated(projectExpertise)
        researcherTags == parseCommaSeparated(researcherExpertise)
        similarity == calculateJaccardSimilarity(projectTags, researcherTags)
    IN IF Len(projectTags) = 0 \/ Len(researcherTags) = 0 THEN 0
       ELSE Round(similarity.n * 30 * 10, similarity.d)

\* Mutant: the matched methods are divided by the researcher's list length.
calculateMethodsScore_OverAvailable(requiredMethods, researcherMethods) ==
    LET required == parseCommaSeparated(requiredMethods)
        available == parseCommaSeparated(researcherMethods)
        matchedMethods == SelectSeq(required, LAMBDA method : Includes(available, method))
    IN IF Len(required) = 0 THEN 250
       ELSE IF Len(available) = 0 THEN 0
       ELSE Round(Len(matchedMethods) * 25 * 10, Len(available))

calculateMethodsScore(requiredMethods, researcherMethods) ==
    LET required == parseCommaSeparated(requiredMethods)
        available == parseCommaSeparated(researcherMethods)
        matchedMethods == SelectSeq(required, LAMBDA method : Includes(available, method))
    IN IF Len(required) = 0 THEN 250
       ELSE IF Len(available) = 0 THEN 0
       ELSE Round(Len(matchedMethods) * 25 * 10, Len(required))

\* Mutant: the researcher's rates are compared with the budget as they are,
\* without multiplying by the estimated hours.
calculateBudgetScore_NoHours(p, r) ==
    LET projectMin == Or(ParseNum(p.budget_min), Num(0)).v
        projectMax == Or(Or(ParseNum(p.budget_max), ParseNum(p.budget_min)), Num(0)).v
        rateMin == Or(Or(ParseNum(r.rate_min), ParseNum(r.hourly_rate_min)), Num(0)).v
        rateMax == Or(Or(ParseNum(r.rate_max), ParseNum(r.hourly_rate_max)), Num(0)).v
        overlapPercentage ==
            checkRangeOverlap([min |-> Num(projectMin), max |-> Num(projectMax)],
                              [min |-> Num(rateMin), max |-> Num(rateMax)])
    IN IF projectMin = 0 \/ rateMin = 0 THEN 0
       ELSE Round(overlapPercentage.n * 15 * 10, overlapPercentage.d)

calculateBudgetScore(p, r) ==
    LET projectMin == Or(ParseNum(p.budget_min), Num(0)).v
        projectMax == Or(Or(ParseNum(p.budget_max), ParseNum(p.budget_min)), Num(0)).v
        estimatedHours == Or(ParseNum(p.estimated_hours), Num(100)).v
        rateMin == Or(Or(ParseNum(r.rate_min), ParseNum(r.hourly_rate_min)), Num(0)).v
        rateMax == Or(Or(ParseNum(r.rate_max), ParseNum(r.hourly_rate_max)), Num(0)).v
        researcherCostMin == rateMin * estimatedHours
        researcherCostMax == rateMax * estimatedHours
        overlapPercentage ==
            checkRangeOverlap([min |-> Num(projectMin), max |-> Num(projectMax)],
                              [min |-> Num(researcherCostMin), max |-> Num(researcherCostMax)])
    IN IF projectMin = 0 \/ rateMin = 0 THEN 0
       ELSE Round(overlapPercentage.n * 15 * 10, overlapPercentage.d)

calculateAvailabilityScore(p, r) ==
    LET currentProjects == Or(ParseNum(r.current_projects_count), Num(0)).v
        maxProjects == Or(ParseNum(r.max_concurrent_projects), Num(3)).v
        capacity == IF currentProjects < maxProjects THEN 50 ELSE 0
        start ==
            IF Truthy(p.start_date) /\ Truthy(r.available_start_date)
            THEN (IF r.available_start_date.v <= p.start_date.v THEN 50 ELSE 0)
            ELSE IF ~Truthy(p.start_date) THEN 50
            ELSE 0
    IN capacity + start

\* Mutant: the step boundaries are exclusive (count < 2, < 5, ...).
calculateExperienceScore_Exclusive(projectsCompleted) ==
    LET count == Or(ParseNum(projectsCompleted), Num(0)).v
    IN IF count = 0 THEN 0
       ELSE IF count < 2 THEN 30
       ELSE IF count < 5 THEN 50
       ELSE IF count < 10 THEN 70
       ELSE IF count < 20 THEN 90
       ELSE 100

calculateExperienceScore(projectsCompleted) ==
    LET count == Or(ParseNum(projectsCompleted), Num(0)).v
    IN IF count = 0 THEN 0
       ELSE IF count <= 2 THEN 30
       ELSE IF count <= 5 THEN 50
       ELSE IF count <= 10 THEN 70
       ELSE IF count <= 20 THEN 90
       ELSE 100

\* Mutant: an organization without focus areas fits every researcher.
calculateDomainScore_NoFocusIsFull(orgFocusAreas, researcherDomains) ==
    LET orgDomains == parseCommaSeparated(orgFocusAreas)
        resDomains == parseCommaSeparated(researcherDomains)
        similarity == calculateJaccardSimilarity(orgDomains, resDomains)
    IN IF Len(orgDomains) = 0 THEN 100
       ELSE IF Len(resDomains) = 0 THEN 0
       ELSE Round(similarity.n * 10 * 10, similarity.d)

calculateDomainScore(orgFocusAreas, researcherDomains) ==
    LET orgDomains == parseCommaSeparated(orgFocusAreas)
        resDomains == parseCommaSeparated(researcherDomains)
        similarity == calculateJaccardSimilarity(orgDomains, resDomains)
    IN IF Len(orgDomains) = 0 \/ Len(resDomains) = 0 THEN 0
       ELSE Round(similarity.n * 10 * 10, similarity.d)

(***************************************************************************)
(* Score aggregator                                                        *)
(***************************************************************************)
\* A strength or concern: its text and the value interpolated into it.
Tag(text, value) == [text |-> text, value |-> value]

\* strengths.push / concerns.push under a condition
PushIf(cond, list, tag) == IF cond THEN Append(list, tag) ELSE list

\* Mutant: the description is read from outcomes first, problem second.
Breakdown_OutcomesFirst(p, r) ==
    [expertise |-> calculateExpertiseScore(
                       Or(Or(p.outcomes, p.problem), Str(<<>>)), r.expertise),
     methods |-> calculateMethodsScore(p.methods_required, r.methods),
     budget |-> calculateBudgetScore(p, r),
     availability |-> calculateAvailabilityScore(p, r),
     experience |-> calculateExperienceScore(r.projects_completed),
     domain |-> calculateDomainScore(
                    IF Truthy(p.organization) THEN p.organization.v.focus_areas ELSE Null,
                    r.domains)]

\* const breakdown = {...}: the six factor scores of a pair.
Breakdown(p, r) ==
    [expertise |-> calculateExpertiseScore(
                       Or(Or(p.problem, p.outcomes), Str(<<>>)), r.expertise),
     methods |-> calculateMethodsScore(p.methods_required, r.methods),
     budget |-> calculateBudgetScore(p, r),
     availability |-> calculateAvailabilityScore(p, r),
     experience |-> calculateExperienceScore(r.projects_completed),
     \* project.organization?.focus_areas
     domain |-> calculateDomainScore(
                    IF Truthy(p.organization) THEN p.organization.v.focus_areas ELSE Null,
                    r.domains)]

\* Mutant: the reduce leaves the last factor out of the sum.
TotalScore_WithoutDomain(breakdown) ==
    breakdown.expertise + breakdown.methods + breakdown.budget
        + breakdown.availability + breakdown.experience

\* Object.values(breakdown).reduce((sum, val) => sum + val, 0)
TotalScore(breakdown) ==
    breakdown.expertise + breakdown.methods + breakdown.budget
        + breakdown.availability + breakdown.experience + breakdown.domain

\* Mutant: the availability strength is given for any availability points.
Strengths_AnyAvailability(breakdown, r) ==
    LET s1 == PushIf(breakdown.expertise >= 200, <<>>,
                     Tag("Strong expertise match",
                         Num(Round(breakdown.expertise * 100, 300))))
        s2 == IF breakdown.methods = 250
              THEN Append(s1, Tag("All required methods present", Null))
              ELSE PushIf(breakdown.methods >= 150, s1,
                          Tag("Most required methods present", Null))
        s3 == PushIf(breakdown.budget >= 120, s2, Tag("Rate fits within budget", Null))
        s4 == PushIf(breakdown.availability >= 50, s3,
                     Tag("Available and has capacity", Null))
    IN PushIf(breakdown.experience >= 80, s4,
              Tag("Highly experienced", r.projects_completed))

Strengths(breakdown, r) ==
    LET s1 == PushIf(breakdown.expertise >= 200, <<>>,
                     Tag("Strong expertise match",
                         Num(Round(breakdown.expertise * 100, 300))))
        s2 == IF breakdown.methods = 250
              THEN Append(s1, Tag("All required methods present", Null))
              ELSE PushIf(breakdown.methods >= 150, s1,
                          Tag("Most required methods present", Null))
        s3 == PushIf(breakdown.budget >= 120, s2, Tag("Rate fits within budget", Null))
        s4 == PushIf(breakdown.availability = 100, s3,
                     Tag("Available and has capacity", Null))
    IN PushIf(breakdown.experience >= 80, s4,
              Tag("Highly experienced", r.projects_completed))

\* Mutant: the availability concern is raised up to the full 10 points.
Concerns_AvailabilityUpToTen(breakdown) ==
    LET c1 == PushIf(breakdown.expertise < 150, <<>>, Tag("Limited expertise overlap", Null))
        c2 == PushIf(breakdown.methods < 150, c1, Tag("Missing some required methods", Null))
        c3 == PushIf(breakdown.budget < 80, c2, Tag("Rate may not fit budget", Null))
        c4 == PushIf(breakdown.availability <= 100, c3,
                     Tag("May not be available or at capacity", Null))
    IN PushIf(breakdown.domain < 50, c4, Tag("Different research domain focus", Null))

Concerns(breakdown) ==
    LET c1 == PushIf(breakdown.expertise < 150, <<>>, Tag("Limited expertise overlap", Null))
        c2 == PushIf(breakdown.methods < 150, c1, Tag("Missing some required methods", Null))
        c3 == PushIf(breakdown.budget < 80, c2, Tag("Rate may not fit budget", Null))
        c4 == PushIf(breakdown.availability < 50, c3,
                     Tag("May not be available or at capacity", Null))
    IN PushIf(breakdown.domain < 50, c4, Tag("Different research domain focus", Null))

calculateMatchScore(p, r) ==
    LET breakdown == Breakdown(p, r)
        totalScore == TotalScore(breakdown)
    IN \* Math.round(totalScore * 10) / 10, the sum being in tenths already
       [totalScore |-> Round(totalScore, 1),
        breakdown |-> breakdown,
        strengths |-> Strengths(breakdown, r),
        concerns |-> Concerns(breakdown)]

(***************************************************************************)
(* Bounded input domains                                                   *)
(***************************************************************************)
MaxItems == 3        \* comma-separated pieces in a text field
MaxArray == 3        \* elements of an array passed to calculateJaccardSimilarity
MaxCoord == 5        \* largest bound of a range passed to checkRangeOverlap

\* The pieces a text field is written from: an empty piece, a tag, the same
\* tag in upper case behind a space, another tag before a space.
Pieces == {<<>>, <<"a">>, <<" ", "A">>, <<"b", " ">>}

\* The texts made of 1..k pieces joined by commas.
RECURSIVE TextsOf(_)
TextsOf(k) ==
    IF k <= 0 THEN {}
    ELSE IF k = 1 THEN Pieces
    ELSE LET shorter == TextsOf(k - 1)
         IN shorter \cup {t \o <<",">> \o piece : t \in shorter, piece \in Pieces}

\* The values of a text column: absent, or a text of at most k pieces.
TextValues(k) == {Null} \cup {Str(t) : t \in TextsOf(k)}

\* Tags as they come out of parseCommaSeparated.
TagNames == {<<"a">>, <<"b">>, <<"c">>}

RECURSIVE ArraysOf(_)
ArraysOf(k) ==
    IF k <= 0 THEN {<<>>}
    ELSE LET shorter == ArraysOf(k - 1)
         IN shorter \cup {Append(q, x) : q \in shorter, x \in TagNames}

\* A bound of a range: missing, or a number 0..MaxCoord.
CoordValues == {Null} \cup {Num(n) : n \in 0..MaxCoord}
RangeValues == [min : CoordValues, max : CoordValues]

MaxBudget == 3       \* largest small budget amount
MaxRate == 2         \* largest hourly rate
MaxHours == 2        \* largest estimated_hours
MaxProjects == 4     \* largest current / maximum concurrent project count
MaxDay == 3          \* latest calendar day of a start date
MaxCompleted == 60   \* largest projects_completed

\* Budget amounts: absent, 0..MaxBudget, and the amounts a rate costs over the
\* default 100 hours.
BudgetValues ==
    {Null} \cup {Num(n) : n \in 0..MaxBudget} \cup {Num(100 * k) : k \in 1..MaxRate}
HourValues == {Null} \cup {Num(n) : n \in 0..MaxHours}
RateValues == {Null} \cup {Num(n) : n \in 0..MaxRate}
CountValues == {Null} \cup {Num(n) : n \in 0..MaxProjects}
DateValues == {Null} \cup {Date(d) : d \in 1..MaxDay}
CompletedValues == {Null} \cup {Num(n) : n \in 0..MaxCompleted}
OrganizationValues(k) == {Null} \cup {Obj([focus_areas |-> f]) : f \in TextValues(k)}

\* A project and a researcher profile with every column absent.
EmptyProject ==
    [problem |-> Null, outcomes |-> Null, methods_required |-> Null,
     budget_min |-> Null, budget_max |-> Null, estimated_hours |-> Null,
     start_date |-> Null, organization |-> Null]

EmptyResearcher ==
    [expertise |-> Null, methods |-> Null, domains |-> Null,
     rate_min |-> Null, rate_max |-> Null,
     hourly_rate_min |-> Null, hourly_rate_max |-> Null,
     current_projects_count |-> Null, max_concurrent_projects |-> Null,
     available_start_date |-> Null, projects_completed |-> Null]

\* A project and a researcher profile that suit each other on every factor.
FullProject ==
    [problem |-> Str(<<"a">>), outcomes |-> Null, methods_required |-> Str(<<"a">>),
     budget_min |-> Num(100), budget_max |-> Num(200), estimated_hours |-> Null,
     start_date |-> Date(1), organization |-> Obj([focus_areas |-> Str(<<"a">>)])]

FullResearcher ==
    [expertise |-> Str(<<"a">>), methods |-> Str(<<"a">>), domains |-> Str(<<"a">>),
     rate_min |-> Num(1), rate_max |-> Num(2),
     hourly_rate_min |-> Null, hourly_rate_max |-> Null,
     current_projects_count |-> Num(0), max_concurrent_projects |-> Null,
     available_start_date |-> Date(1), projects_completed |-> Num(21)]

NoRecord == Null
NoArgs == <<>>

\* The scorers run on records in memory: no table, no data-layer call.
NoStore == [projects |-> {}, organizations |-> {}, profiles |-> {}, users |-> {}]
NoData ==
    store = NoStore /\ queries = <<>> /\ fetched = <<>> /\ called = <<>> /\ history = <<>>

(***************************************************************************)
(* SpecJaccard: calculateJaccardSimilarity applied to two arrays           *)
(***************************************************************************)
InitJaccard ==
    /\ project = NoRecord
    /\ researcher = NoRecord
    /\ args \in ArraysOf(MaxArray) \X ArraysOf(MaxArray)
    /\ ret = Null
    /\ pc = "ready"
    /\ NoData

ApplyJaccard ==
    /\ pc = "ready"
    /\ ret' = calculateJaccardSimilarity(args[1], args[2])
    /\ pc' = "done"
    /\ UNCHANGED <<project, researcher, args, dataVars>>

NextJaccard == ApplyJaccard

SpecJaccard == InitJaccard /\ [][NextJaccard]_vars

(***************************************************************************)
(* SpecRange: checkRangeOverlap applied to two ranges                      *)
(***************************************************************************)
InitRange ==
    /\ project = NoRecord
    /\ researcher = NoRecord
    /\ args \in RangeValues \X RangeValues
    /\ ret = Null
    /\ pc = "ready"
    /\ NoData

ApplyRangeOverlap ==
    /\ pc = "ready"
    /\ ret' = checkRangeOverlap(args[1], args[2])
    /\ pc' = "done"
    /\ UNCHANGED <<project, researcher, args, dataVars>>

NextRange == ApplyRangeOverlap

SpecRange == InitRange /\ [][NextRange]_vars

\* C8: calculateJaccardSimilarity(A, B) is |A n B| / |A u B| over the distinct
\* elements, 0 when either array is empty, symmetric, and within [0, 1].
C8_JaccardDefinition ==
    pc = "done" =>
        LET A == Range(args[1])
            B == Range(args[2])
        IN /\ (A = {} \/ B = {}) => ret = Zero
           /\ (A # {} /\ B # {}) =>
                  /\ ret.d > 0
                  /\ ret.n * Cardinality(A \cup B) = Cardinality(A \cap B) * ret.d
           /\ FracEq(ret, calculateJaccardSimilarity(args[2], args[1]))
           /\ FracLe(Zero, ret) /\ FracLe(ret, Frac(1, 1))

\* {a, b} against {b, c}, the first array with a repeated element: 1/3.
C8_Witness ==
    /\ pc = "done"
    /\ args = << <<<<"a">>, <<"b">>, <<"a">>>>, <<<<"b">>, <<"c">>>> >>
    /\ FracEq(ret, Frac(1, 3))

\* What C9 expects of checkRangeOverlap(R1, R2) when `missing` says which
\* bounds count as missing.
RangeOverlapExpected(R1, R2, r, missing(_)) ==
    IF missing(R1.min) \/ missing(R1.max) \/ missing(R2.min) \/ missing(R2.max)
    THEN r = Zero
    ELSE LET lo == Max(R1.min.v, R2.min.v)
             hi == Min(R1.max.v, R2.max.v)
             total == (R1.max.v - R1.min.v) + (R2.max.v - R2.min.v)
         IN IF hi <= lo THEN r = Zero
            ELSE /\ r.d > 0
                 /\ IF 2 * (hi - lo) <= total
                    THEN r.n * total = 2 * (hi - lo) * r.d
                    ELSE r.n = r.d

IsAbsent(x) == x = Null
IsAbsentOrZero(x) == x = Null \/ x = Num(0)

\* C9 (as claimed): checkRangeOverlap returns 0 when a bound is missing or the
\* ranges do not overlap, and otherwise overlap / average length capped at 1.
C9_RangeOverlapOriginal ==
    pc = "done" => RangeOverlapExpected(args[1], args[2], ret, IsAbsent)

\* C9 (amended): a bound that is missing OR ZERO makes the result 0; otherwise
\* non-overlapping ranges give 0 and overlapping ranges give
\* overlap / average length capped at 1; the result is always within [0, 1].
C9_RangeOverlapAmended ==
    pc = "done" =>
        /\ RangeOverlapExpected(args[1], args[2], ret, IsAbsentOrZero)
        /\ FracLe(Zero, ret) /\ FracLe(ret, Frac(1, 1))

\* [2,4] against [3,5] (the spec's [10,20] against [15,25] in units of 5): 0.5.
C9_Witness ==
    /\ pc = "done"
    /\ args = <<[min |-> Num(2), max |-> Num(4)], [min |-> Num(3), max |-> Num(5)]>>
    /\ FracEq(ret, Frac(1, 2))

(***************************************************************************)
(* SpecMethods: calculateMethodsScore on every pair of methods texts       *)
(***************************************************************************)
InitMethods ==
    /\ \E required \in TextValues(MaxItems), available \in TextValues(MaxItems) :
           /\ project = [EmptyProject EXCEPT !.methods_required = required]
           /\ researcher = [EmptyResearcher EXCEPT !.methods = available]
    /\ args = NoArgs
    /\ ret = Null
    /\ pc = "ready"
    /\ NoData

ScoreMethods ==
    /\ pc = "ready"
    /\ ret' = calculateMethodsScore(project.methods_required, researcher.methods)
    /\ pc' = "done"
    /\ UNCHANGED <<project, researcher, args, dataVars>>

NextMethods == ScoreMethods

SpecMethods == InitMethods /\ [][NextMethods]_vars

\* C3: the methods sub-score is 25 with no required method, else 0 with no
\* researcher method, else |required n available| / |required| x 25 rounded to
\* one decimal, required and available being SETS of trimmed lowercase tags.
C3_MethodsOverSets ==
    pc = "done" =>
        LET required == Range(parseCommaSeparated(project.methods_required))
            available == Range(parseCommaSeparated(researcher.methods))
        IN ret = IF required = {} THEN 250
                 ELSE IF available = {} THEN 0
                 ELSE Round(Cardinality(required \cap available) * 250,
                            Cardinality(required))

\* "a,b" required against "a": 12.5, as the spec's "survey,interview" example.
C3_Example ==
    /\ pc = "done"
    /\ project.methods_required = Str(<<"a", ",", "b", " ">>)
    /\ researcher.methods = Str(<<"a">>)
    /\ ret = 125

(***************************************************************************)
(* SpecExperience: calculateExperienceScore on every projects_completed    *)
(***************************************************************************)
InitExperience ==
    /\ project = EmptyProject
    /\ \E completed \in CompletedValues :
           researcher = [EmptyResearcher EXCEPT !.projects_completed = completed]
    /\ args = NoArgs
    /\ ret = Null
    /\ pc = "ready"
    /\ NoData

ScoreExperience ==
    /\ pc = "ready"
    /\ ret' = calculateExperienceScore(researcher.projects_completed)
    /\ pc' = "done"
    /\ UNCHANGED <<project, researcher, args, dataVars>>

NextExperience == ScoreExperience

SpecExperience == InitExperience /\ [][NextExperience]_vars

\* The step function of the specification's table, in tenths of a point.
ExperienceStep(n) ==
    CASE n = 0 -> 0
      [] n \in 1..2 -> 30
      [] n \in 3..5 -> 50
      [] n \in 6..10 -> 70
      [] n \in 11..20 -> 90
      [] OTHER -> 100

\* C7: for every non-negative projects_completed (absent is 0) the experience
\* sub-score is the step function 0, 3, 5, 7, 9, 10 and it never decreases
\* when projects_completed grows.
C7_ExperienceStep ==
    pc = "done" =>
        LET n == IF researcher.projects_completed = Null THEN 0
                 ELSE researcher.projects_completed.v
        IN /\ ret = ExperienceStep(n)
           /\ \A m \in 0..n : calculateExperienceScore(Num(m)) <= ret

\* projects_completed = 7 scores exactly 7.
C7_Witness ==
    /\ pc = "done"
    /\ researcher.projects_completed = Num(7)
    /\ ret = 70

(***************************************************************************)
(* SpecAvailability: calculateAvailabilityScore on capacity and dates      *)
(***************************************************************************)
InitAvailability ==
    /\ \E start \in DateValues :
           project = [EmptyProject EXCEPT !.start_date = start]
    /\ \E current \in CountValues, maximum \in CountValues, available \in DateValues :
           researcher = [EmptyResearcher EXCEPT
                             !.current_projects_count = current,
                             !.max_concurrent_projects = maximum,
                             !.available_start_date = available]
    /\ args = NoArgs
    /\ ret = Null
    /\ pc = "ready"
    /\ NoData

ScoreAvailability ==
    /\ pc = "ready"
    /\ ret' = calculateAvailabilityScore(project, researcher)
    /\ pc' = "done"
    /\ UNCHANGED <<project, researcher, args, dataVars>>

NextAvailability == ScoreAvailability

SpecAvailability == InitAvailability /\ [][NextAvailability]_vars

\* A count column read as a number: absent is `default`.
CountOr(x, default) == IF x = Null THEN default ELSE x.v

\* C6: availability is 5 points exactly when current_projects_count <
\* max_concurrent_projects (3 only when that column is absent) plus 5 points
\* exactly when the project has no start_date or the researcher's
\* available_start_date is on or before it; so a researcher whose
\* current_projects_count equals max_concurrent_projects never scores above 5.
C6_AvailabilityHalves ==
    pc = "done" =>
        LET current == CountOr(researcher.current_projects_count, 0)
            maximum == CountOr(researcher.max_concurrent_projects, 3)
            capacity == IF current < maximum THEN 50 ELSE 0
            dates == IF project.start_date = Null THEN 50
                     ELSE IF researcher.available_start_date # Null
                             /\ researcher.available_start_date.v <= project.start_date.v
                          THEN 50
                     ELSE 0
        IN /\ ret = capacity + dates
           /\ (researcher.max_concurrent_projects # Null
                 /\ current = researcher.max_concurrent_projects.v) => ret <= 50

(***************************************************************************)
(* SpecBudget: calculateBudgetScore on budgets, hours and both rate pairs  *)
(***************************************************************************)
InitBudget ==
    /\ \E bmin \in BudgetValues, bmax \in BudgetValues, hours \in HourValues :
           project = [EmptyProject EXCEPT !.budget_min = bmin, !.budget_max = bmax,
                                          !.estimated_hours = hours]
    /\ \E rmin \in RateValues, rmax \in RateValues,
          hmin \in RateValues, hmax \in RateValues :
           researcher = [EmptyResearcher EXCEPT
                             !.rate_min = rmin, !.rate_max = rmax,
                             !.hourly_rate_min = hmin, !.hourly_rate_max = hmax]
    /\ args = NoArgs
    /\ ret = Null
    /\ pc = "ready"
    /\ NoData

ScoreBudget ==
    /\ pc = "ready"
    /\ ret' = calculateBudgetScore(project, researcher)
    /\ pc' = "done"
    /\ UNCHANGED <<project, researcher, args, dataVars>>

NextBudget == ScoreBudget

SpecBudget == InitBudget /\ [][NextBudget]_vars

\* A numeric column read as a number: absent is 0.
Amount(x) == IF x = Null THEN 0 ELSE x.v

\* The budget sub-score C5 describes, from a resolved rate pair and the
\* estimated hours in effect:
\* rangeOverlap([budget_min, budget_max], [rate x hours]) x 15, one decimal.
BudgetExpected(p, rateMin, rateMax, hours) ==
    LET budgetMax == IF p.budget_max = Null THEN p.budget_min ELSE p.budget_max
        overlap == checkRangeOverlap(
                       [min |-> p.budget_min, max |-> budgetMax],
                       [min |-> Num(Amount(rateMin) * hours),
                        max |-> Num(Amount(rateMax) * hours)])
    IN IF Amount(p.budget_min) = 0 \/ Amount(rateMin) = 0 THEN 0
       ELSE Round(overlap.n * 150, overlap.d)

\* The rate pair the source resolves: rate_* first, hourly_rate_* otherwise.
ResolvedRateMin(r) == Or(r.rate_min, r.hourly_rate_min)
ResolvedRateMax(r) == Or(r.rate_max, r.hourly_rate_max)

\* C4: with rate_* and hourly_rate_* both populated and different, the budget
\* sub-score is the one computed from hourly_rate_*; rate_* is used only when
\* the hourly_rate_* column is absent.
C4_HourlyRateFirst ==
    pc = "done" =>
        LET hours == IF Amount(project.estimated_hours) = 0 THEN 100
                     ELSE project.estimated_hours.v
        IN (/\ Truthy(researcher.rate_min) /\ Truthy(researcher.rate_max)
            /\ Truthy(researcher.hourly_rate_min) /\ Truthy(researcher.hourly_rate_max))
           => ret = BudgetExpected(project, researcher.hourly_rate_min,
                                   researcher.hourly_rate_max, hours)

\* C5 (as claimed): the budget sub-score is rangeOverlap x 15 with budget_max
\* defaulting to budget_min and estimated_hours defaulting to 100 when ABSENT,
\* and 0 whenever budget_min or the minimum rate is zero or absent.
C5_BudgetOriginal ==
    pc = "done" =>
        /\ ret = BudgetExpected(project, ResolvedRateMin(researcher),
                                ResolvedRateMax(researcher),
                                CountOr(project.estimated_hours, 100))
        /\ (Amount(project.budget_min) = 0 \/ Amount(ResolvedRateMin(researcher)) = 0)
               => ret = 0

\* C5 (amended): as claimed, but estimated_hours defaults to 100 when it is
\* absent OR ZERO.
C5_BudgetAmended ==
    pc = "done" =>
        /\ ret = BudgetExpected(project, ResolvedRateMin(researcher),
                                ResolvedRateMax(researcher),
                                IF Amount(project.estimated_hours) = 0 THEN 100
                                ELSE project.estimated_hours.v)
        /\ (Amount(project.budget_min) = 0 \/ Amount(ResolvedRateMin(researcher)) = 0)
               => ret = 0

\* Budget [1,3] against rates [1,2] over 2 hours (cost [2,4]): overlap 1 of an
\* average length 2, so 7.5 points.
C5_Witness ==
    /\ pc = "done"
    /\ project.budget_min = Num(1) /\ project.budget_max = Num(3)
    /\ project.estimated_hours = Num(2)
    /\ researcher.rate_min = Num(1) /\ researcher.rate_max = Num(2)
    /\ ret = 75

(***************************************************************************)
(* Spec: calculateMatchScore on a project and a researcher profile.  The   *)
(* columns one factor reads take every value of their domain while the     *)
(* other columns are those of an empty or of a fully matching pair.        *)
(***************************************************************************)
Profiles == {<<EmptyProject, EmptyResearcher>>, <<FullProject, FullResearcher>>}

ExpertiseColumns(base, k) ==
    \E problem \in TextValues(k), outcomes \in TextValues(1),
       expertise \in TextValues(MaxItems - 1) :
        /\ project = [base[1] EXCEPT !.problem = problem, !.outcomes = outcomes]
        /\ researcher = [base[2] EXCEPT !.expertise = expertise]

MethodsColumns(base, k) ==
    \E required \in TextValues(k), available \in TextValues(k) :
        /\ project = [base[1] EXCEPT !.methods_required = required]
        /\ researcher = [base[2] EXCEPT !.methods = available]

BudgetColumns(base) ==
    \E bmin \in BudgetValues, bmax \in BudgetValues, hours \in HourValues,
       rmin \in RateValues, rmax \in RateValues :
        /\ project = [base[1] EXCEPT !.budget_min = bmin, !.budget_max = bmax,
                                     !.estimated_hours = hours]
        /\ researcher = [base[2] EXCEPT !.rate_min = rmin, !.rate_max = rmax]

AvailabilityColumns(base) ==
    \E start \in DateValues, current \in CountValues, maximum \in CountValues,
       available \in DateValues :
        /\ project = [base[1] EXCEPT !.start_date = start]
        /\ researcher = [base[2] EXCEPT !.current_projects_count = current,
                                        !.max_concurrent_projects = maximum,
                                        !.available_start_date = available]

ExperienceColumns(base) ==
    \E completed \in CompletedValues :
        /\ project = base[1]
        /\ researcher = [base[2] EXCEPT !.projects_completed = completed]

DomainColumns(base, k) ==
    \E organization \in OrganizationValues(k), domains \in TextValues(k) :
        /\ project = [base[1] EXCEPT !.organization = organization]
        /\ researcher = [base[2] EXCEPT !.domains = domains]

Init ==
    /\ \E base \in Profiles :
           \/ ExpertiseColumns(base, MaxItems - 1)
           \/ MethodsColumns(base, MaxItems)
           \/ BudgetColumns(base)
           \/ AvailabilityColumns(base)
           \/ ExperienceColumns(base)
           \/ DomainColumns(base, MaxItems - 1)
    /\ args = NoArgs
    /\ ret = Null
    /\ pc = "ready"
    /\ NoData

ScoreMatch ==
    /\ pc = "ready"
    /\ ret' = calculateMatchScore(project, researcher)
    /\ pc' = "done"
    /\ UNCHANGED <<project, researcher, args, dataVars>>

Next == ScoreMatch

Spec == Init /\ [][Next]_vars

\* C1: calculateMatchScore returns 0 <= totalScore <= 100 and a breakdown with
\* expertise in [0,30], methods in [0,25], budget in [0,15], availability in
\* [0,10], experience in [0,10] and domain in [0,10], whatever is present,
\* absent, zero or empty in the two records.
C1_ScoresWithinBounds ==
    pc = "done" =>
        /\ 0 <= ret.totalScore /\ ret.totalScore <= 1000
        /\ 0 <= ret.breakdown.expertise /\ ret.breakdown.expertise <= 300
        /\ 0 <= ret.breakdown.methods /\ ret.breakdown.methods <= 250
        /\ 0 <= ret.breakdown.budget /\ ret.breakdown.budget <= 150
        /\ 0 <= ret.breakdown.availability /\ ret.breakdown.availability <= 100
        /\ 0 <= ret.breakdown.experience /\ ret.breakdown.experience <= 100
        /\ 0 <= ret.breakdown.domain /\ ret.breakdown.domain <= 100

\* Every factor at its maximum: the total is 100.
C1_Witness ==
    /\ pc = "done"
    /\ ret.breakdown = [expertise |-> 300, methods |-> 250, budget |-> 150,
                        availability |-> 100, experience |-> 100, domain |-> 100]
    /\ ret.totalScore = 1000

\* C2: totalScore is the plain sum of the six breakdown values, with no
\* weight and no other term.
C2_TotalIsSum ==
    pc = "done" =>
        ret.totalScore = ret.breakdown.expertise + ret.breakdown.methods
                           + ret.breakdown.budget + ret.breakdown.availability
                           + ret.breakdown.experience + ret.breakdown.domain

\* Half of the required methods (12.5) next to five full factors: 87.5.
C2_Witness ==
    /\ pc = "done"
    /\ ret.breakdown.methods = 125
    /\ ret.breakdown.domain = 100
    /\ ret.totalScore = 875

(***************************************************************************)
(* SpecTags: calculateMatchScore on the text columns of the expertise and  *)
(* domain factors, with texts of up to MaxItems pieces, every other column  *)
(* absent.                                                                 *)
(***************************************************************************)
InitTags ==
    /\ \/ ExpertiseColumns(<<EmptyProject, EmptyResearcher>>, MaxItems)
       \/ DomainColumns(<<EmptyProject, EmptyResearcher>>, MaxItems)
    /\ args = NoArgs
    /\ ret = Null
    /\ pc = "ready"
    /\ NoData

NextTags == ScoreMatch

SpecTags == InitTags /\ [][NextTags]_vars

\* Jaccard similarity of two tag sets times `points`, in tenths, 0 when either
\* set is empty.
SimilarityPoints(A, B, points) ==
    IF A = {} \/ B = {} THEN 0
    ELSE Round(Cardinality(A \cap B) * points * 10, Cardinality(A \cup B))

\* C10: expertise is the Jaccard similarity of the tags parsed from the
\* project's description (problem, or outcomes when problem is empty) and the
\* researcher's expertise tags, x 30; domain is the Jaccard similarity of the
\* organization's focus_areas tags and the researcher's domains tags, x 10;
\* both rounded to one decimal and 0 when a side has no tag or the project
\* has no organization.
C10_ExpertiseAndDomain ==
    pc = "done" =>
        LET description == IF project.problem \in {Null, Str(<<>>)}
                           THEN project.outcomes ELSE project.problem
            focus == IF project.organization = Null THEN Null
                     ELSE project.organization.v.focus_areas
            projectTags == Range(parseCommaSeparated(description))
            expertiseTags == Range(parseCommaSeparated(researcher.expertise))
            focusTags == Range(parseCommaSeparated(focus))
            domainTags == Range(parseCommaSeparated(researcher.domains))
        IN /\ ret.breakdown.expertise = SimilarityPoints(projectTags, expertiseTags, 30)
           /\ ret.breakdown.domain = SimilarityPoints(focusTags, domainTags, 10)

\* An empty problem falls back to outcomes "a"; against expertise {a, b} the
\* similarity is 1/2, so 15 points.
C10_Witness ==
    /\ pc = "done"
    /\ project.problem = Str(<<>>)
    /\ project.outcomes = Str(<<"a">>)
    /\ Range(parseCommaSeparated(researcher.expertise)) = {<<"a">>, <<"b">>}
    /\ ret.breakdown.expertise = 150

\* The texts of a list of strengths or concerns.
TagTexts(tags) == {tags[i].text : i \in 1..Len(tags)}

\* The texts among `table` (text -> condition) whose condition holds.
TextsWhere(table) == {text \in DOMAIN table : table[text]}

\* The concern tags C11 lists, from a breakdown.
ConcernsClaimed(b) ==
    TextsWhere([x \in {"Limited expertise overlap", "Missing some required methods",
                       "Rate may not fit budget", "May not be available or at capacity",
                       "Different research domain focus"} |->
                  CASE x = "Limited expertise overlap" -> b.expertise < 150
                    [] x = "Missing some required methods" -> b.methods < 150
                    [] x = "Rate may not fit budget" -> b.budget < 80
                    [] x = "May not be available or at capacity" -> b.availability < 50
                    [] OTHER -> b.domain < 50])

\* The strength tags C11 lists, from a breakdown.
StrengthsClaimed(b) ==
    TextsWhere([x \in {"Strong expertise match", "All required methods present",
                       "Rate fits within budget", "Available and has capacity",
                       "Highly experienced"} |->
                  CASE x = "Strong expertise match" -> b.expertise >= 200
                    [] x = "All required methods present" -> b.methods = 250
                    [] x = "Rate fits within budget" -> b.budget >= 120
                    [] x = "Available and has capacity" -> b.availability = 100
                    [] OTHER -> b.experience >= 80])

\* C11 (as claimed): the strengths are exactly those of the five listed
\* thresholds (for methods only 'All required methods present' at 25) and the
\* concerns exactly those of the five listed thresholds.
C11_TagsOriginal ==
    pc = "done" =>
        /\ TagTexts(ret.strengths) = StrengthsClaimed(ret.breakdown)
        /\ TagTexts(ret.concerns) = ConcernsClaimed(ret.breakdown)

\* C11 (amended): as claimed, plus the strength 'Most required methods
\* present', which appears iff 15 <= methods < 25; nothing but the breakdown
\* decides which tags appear.
C11_TagsAmended ==
    pc = "done" =>
        /\ TagTexts(ret.strengths) =
               StrengthsClaimed(ret.breakdown)
                 \cup (IF ret.breakdown.methods >= 150 /\ ret.breakdown.methods < 250
                       THEN {"Most required methods present"} ELSE {})
        /\ TagTexts(ret.concerns) = ConcernsClaimed(ret.breakdown)

\* Two of three required methods (16.7): 'Most required methods present' is a
\* strength and no methods concern is raised.
C11_Witness ==
    /\ pc = "done"
    /\ ret.breakdown.methods = 167
    /\ "Most required methods present" \in TagTexts(ret.strengths)
    /\ "Missing some required methods" \notin TagTexts(ret.concerns)

(***************************************************************************)
(* Data layer.  A table is a set of rows; findAll has no ORDER BY, so it   *)
(* returns the matching rows in an order the database chooses.             *)
(***************************************************************************)
\* The sequences that list every element of the set S once.
RECURSIVE OrderingsOf(_)
OrderingsOf(S) ==
    IF S = {} THEN {<<>>}
    ELSE UNION {{<<x>> \o q : q \in OrderingsOf(S \ {x})} : x \in S}

\* Project.findByPk(projectId)
ProjectFindByPk(projectId) ==
    IF \E row \in store.projects : row.project_id = projectId
    THEN CHOOSE row \in store.projects : row.project_id = projectId
    ELSE Null

\* Organization.findByPk(orgId)
OrganizationFindByPk(orgId) ==
    IF \E row \in store.organizations : row.id = orgId
    THEN CHOOSE row \in store.organizations : row.id = orgId
    ELSE Null

\* Mutant: the lookup falls back to some profile when none has the user id.
ResearcherFindOne_Fallback(userId) ==
    IF \E row \in store.profiles : row.user_id = Num(userId)
    THEN CHOOSE row \in store.profiles : row.user_id = Num(userId)
    ELSE IF store.profiles = {} THEN Null
    ELSE CHOOSE row \in store.profiles : TRUE

\* ResearcherProfile.findOne({ where: { user_id } })
ResearcherFindOne(userId) ==
    IF \E row \in store.profiles : row.user_id = Num(userId)
    THEN CHOOSE row \in store.profiles : row.user_id = Num(userId)
    ELSE Null

\* ResearcherProfile.findAll({ where: { user_id: { [Op.ne]: null } } })
ResearchersWithUser == {row \in store.profiles : row.user_id # Null}

\* Project.findAll({ where: { status: 'open' } })
OpenProjects == {row \in store.projects : row.status = "open"}

\* Mutant: the users query does not look at deleted_at.
ActiveUsers_WithDeleted(userIds) ==
    {user \in store.users : /\ Num(user.id) \in userIds
                            /\ user.account_status = "active"}

\* User.findAll({ where: { id: userIds, account_status: 'active', deleted_at: null } })
ActiveUsers(userIds) ==
    {user \in store.users : /\ Num(user.id) \in userIds
                            /\ user.account_status = "active"
                            /\ user.deleted_at = Null}

\* Mutant: the organizations query finds nothing.
OrganizationsIn_None(orgIds) == {org \in store.organizations : FALSE}

\* Organization.findAll({ where: { id: orgIds } })
OrganizationsIn(orgIds) == {org \in store.organizations : Num(org.id) \in orgIds}

\* project.toJSON() with projectData.organization set: the record the scorers read.
ProjectData(row, organization) ==
    [row.data EXCEPT !.organization =
        IF organization = Null THEN Null
        ELSE Obj([id |-> organization.id, name |-> organization.name,
                  focus_areas |-> organization.focus_areas])]

(***************************************************************************)
(* Finders                                                                 *)
(***************************************************************************)
\* The element of a one-element set.  The({F(x) : x \in {e}}) is F applied to
\* the value of e, computed once.
The(S) == CHOOSE x \in S : TRUE

\* Array.prototype.slice(start, end)
Slice(q, start, end) ==
    LET from == IF start < 0 THEN Max(Len(q) + start, 0) ELSE Min(start, Len(q))
        to == IF end < 0 THEN Max(Len(q) + end, 0) ELSE Min(end, Len(q))
    IN IF to <= from THEN <<>> ELSE SubSeq(q, from + 1, to)

\* Array.prototype.map
Map(q, f(_)) == [i \in 1..Len(q) |-> f(q[i])]

\* Mutant: an entry goes before the entries of equal score already placed.
InsertByScore_Unstable(sorted, x) ==
    LET k == Cardinality({i \in 1..Len(sorted) : sorted[i].matchScore > x.matchScore})
    IN SubSeq(sorted, 1, k) \o <<x>> \o SubSeq(sorted, k + 1, Len(sorted))

\* One step of the stable sort: x goes behind every entry whose score is not
\* lower than its own.
InsertByScore(sorted, x) ==
    LET k == Cardinality({i \in 1..Len(sorted) : sorted[i].matchScore >= x.matchScore})
    IN SubSeq(sorted, 1, k) \o <<x>> \o SubSeq(sorted, k + 1, Len(sorted))

\* matches.sort((a, b) => b.matchScore - a.matchScore): Array.prototype.sort
\* is stable (ECMAScript 2019).
RECURSIVE SortByScore(_)
SortByScore(q) ==
    IF q = <<>> THEN <<>>
    ELSE The({InsertByScore(sorted, q[Len(q)])
                 : sorted \in {SortByScore(SubSeq(q, 1, Len(q) - 1))}})

\* Mutant: the minimum score is applied as a strict bound.
FilterByScore_Strict(matches, minScore) ==
    SelectSeq(matches, LAMBDA match : match.matchScore > minScore)

\* matches.filter(match => match.matchScore >= minScore)
FilterByScore(matches, minScore) ==
    SelectSeq(matches, LAMBDA match : match.matchScore >= minScore)

\* Mutant: the page is cut at `limit`, whatever the offset.
Paginate_EndAtLimit(filteredMatches, options) ==
    [matches |-> Slice(filteredMatches, options.offset, options.limit),
     pagination |-> [total |-> Len(filteredMatches),
                     limit |-> options.limit,
                     offset |-> options.offset,
                     hasMore |-> options.offset + options.limit < Len(filteredMatches)]]

\* A destructured option that is not undefined.
Has(options, name) == name \in DOMAIN options

\* The slice and the pagination record both finders return.  An undefined
\* offset starts the slice at 0; with limit or offset undefined the end
\* offset + limit is NaN, which slice reads as 0 and which is below no
\* length; an undefined limit or offset stays out of the pagination record.
Paginate(filteredMatches, options) ==
    IF Has(options, "limit") /\ Has(options, "offset")
    THEN [matches |-> Slice(filteredMatches, options.offset, options.offset + options.limit),
          pagination |-> [total |-> Len(filteredMatches),
                          limit |-> options.limit,
                          offset |-> options.offset,
                          hasMore |-> options.offset + options.limit < Len(filteredMatches)]]
    ELSE [matches |-> Slice(filteredMatches,
                            IF Has(options, "offset") THEN options.offset ELSE 0, 0),
          pagination |-> [name \in {"total", "hasMore"} \cup (DOMAIN options \ {"minScore"}) |->
                             CASE name = "total" -> Len(filteredMatches)
                               [] name = "hasMore" -> FALSE
                               [] OTHER -> options[name]]]

\* matches.filter(match => match.matchScore >= minScore) on the destructured
\* options: no score is >= undefined.
FilterByMinScore(matches, options) ==
    IF Has(options, "minScore") THEN FilterByScore(matches, options.minScore) ELSE <<>>

\* const { limit = 20, offset = 0, minScore = 50 } = options, with
\* options = {} when the argument is omitted.
DefaultOptions(options) ==
    LET given == IF options = Null THEN <<>> ELSE options
    IN [limit |-> IF Has(given, "limit") THEN given.limit ELSE 20,
        offset |-> IF Has(given, "offset") THEN given.offset ELSE 0,
        minScore |-> IF Has(given, "minScore") THEN given.minScore ELSE 500]

\* throw new Error(message)
Error(message) == [error |-> message]
IsError(r) == "error" \in DOMAIN r

\* The entry findMatchesForProject builds for a researcher row.  The columns
\* copied through unread (title, affiliation, institution, tools, ...) are
\* left out.
ResearcherMatch(row, user, projectData) ==
    The({[researcher |-> [user_id |-> row.user_id,
                        name |-> user.name,
                        expertise |-> parseCommaSeparated(row.data.expertise),
                        methods |-> parseCommaSeparated(row.data.methods),
                        domains |-> parseCommaSeparated(row.data.domains),
                        rate_min |-> Or(row.data.hourly_rate_min, row.data.rate_min),
                        rate_max |-> Or(row.data.hourly_rate_max, row.data.rate_max),
                        projects_completed |-> row.data.projects_completed],
        matchScore |-> scoreData.totalScore,
        scoreBreakdown |-> scoreData.breakdown,
        strengths |-> scoreData.strengths,
        concerns |-> scoreData.concerns,
        hasApplied |-> FALSE,
        isBookmarked |-> FALSE]
            : scoreData \in {calculateMatchScore(projectData, row.data)}})

\* The entry findMatchesForResearcher builds for a project row.
ProjectMatch(row, organization, researcherData) ==
    LET projectData == ProjectData(row, organization)
    IN The({[project |-> [project_id |-> row.project_id,
                     title |-> row.title,
                     problem |-> row.data.problem,
                     outcomes |-> row.data.outcomes,
                     budget_min |-> row.data.budget_min,
                     budget_max |-> row.data.budget_max,
                     methods_required |-> parseCommaSeparated(row.data.methods_required),
                     organization |->
                         IF Truthy(projectData.organization)
                         THEN Obj([id |-> projectData.organization.v.id,
                                   name |-> projectData.organization.v.name])
                         ELSE Null],
        matchScore |-> scoreData.totalScore,
        scoreBreakdown |-> scoreData.breakdown,
        strengths |-> scoreData.strengths,
        concerns |-> scoreData.concerns,
        hasApplied |-> FALSE,
        isBookmarked |-> FALSE]
            : scoreData \in {calculateMatchScore(projectData, researcherData)}})

\* researchers.filter(researcher => userMap[researcher.user_id]), the map
\* holding the active, not deleted users of the fetched profiles.
EligibleResearchers(researchers) ==
    LET userIds == {researchers[i].user_id : i \in 1..Len(researchers)}
        users == ActiveUsers(userIds)
    IN SelectSeq(researchers, LAMBDA r : \E user \in users : Num(user.id) = r.user_id)

\* findMatchesForProject(projectId, options), `researchers` being what
\* ResearcherProfile.findAll returns: [ret, queries, fetched].
findMatchesForProject(projectId, options, researchers) ==
    LET row == ProjectFindByPk(projectId)
    IN IF options = Null
       THEN [ret |-> Error("Cannot destructure property 'limit' of 'options' as it is undefined."),
             queries |-> <<>>,
             fetched |-> <<>>]
       ELSE IF row = Null
       THEN [ret |-> Error("Project not found"),
             queries |-> <<"Project.findByPk">>,
             fetched |-> <<>>]
       ELSE LET organization == IF Truthy(row.org_id)
                                THEN OrganizationFindByPk(row.org_id.v) ELSE Null
                projectData == ProjectData(row, organization)
                eligible == EligibleResearchers(researchers)
                UserOf(r) == CHOOSE user \in store.users : Num(user.id) = r.user_id
                matches == Map(eligible,
                               LAMBDA r : ResearcherMatch(r, UserOf(r), projectData))
                filteredMatches ==
                    The({SortByScore(kept)
                            : kept \in {FilterByMinScore(matches, options)}})
            IN [ret |-> The({Paginate(ranking, options) : ranking \in {filteredMatches}}),
                queries |-> <<"Project.findByPk">>
                              \o (IF Truthy(row.org_id) THEN <<"Organization.findByPk">>
                                  ELSE <<>>)
                              \o <<"ResearcherProfile.findAll", "User.findAll">>,
                fetched |-> researchers]

\* Mutant: the status filter is dropped from the project fetch.
CandidateProjects_AnyStatus == store.projects

\* The rows Project.findAll returns to findMatchesForResearcher.
CandidateProjects == OpenProjects

\* findMatchesForResearcher(researcherId, options), `projects` being what
\* Project.findAll returns: [ret, queries, fetched].
findMatchesForResearcher(researcherId, given, projects) ==
    LET options == DefaultOptions(given)
        researcher_ == ResearcherFindOne(researcherId)
    IN IF researcher_ = Null
       THEN [ret |-> Error("Researcher profile not found"),
             queries |-> <<"ResearcherProfile.findOne">>,
             fetched |-> <<>>]
       ELSE LET orgIds == {projects[i].org_id : i \in 1..Len(projects)} \ {Null, Num(0)}
                organizations == OrganizationsIn(orgIds)
                OrgOf(p) == IF \E org \in organizations : Num(org.id) = p.org_id
                            THEN CHOOSE org \in organizations : Num(org.id) = p.org_id
                            ELSE Null
                matches == Map(projects,
                               LAMBDA p : ProjectMatch(p, OrgOf(p), researcher_.data))
                filteredMatches ==
                    The({SortByScore(kept)
                            : kept \in {FilterByMinScore(matches, options)}})
            IN [ret |-> The({Paginate(ranking, options) : ranking \in {filteredMatches}}),
                queries |-> <<"ResearcherProfile.findOne", "Project.findAll",
                              "Organization.findAll">>,
                fetched |-> projects]

(***************************************************************************)
(* Stores the finders run against                                          *)
(***************************************************************************)
\* Rows per table that vary, and the largest limit and offset of a call.
MaxRows == 2
MaxPage == 2

\* A researcher profile that shares expertise with FullProject but neither
\* methods nor domains.
HalfResearcher == [FullResearcher EXCEPT !.methods = Null, !.domains = Null]

\* A project that asks for a method FullResearcher does not have.
HalfProject == [FullProject EXCEPT !.methods_required = Str(<<"b", " ">>)]

ProjectRow(id, status, orgId, data) ==
    [project_id |-> id, status |-> status, org_id |-> orgId,
     title |-> Str(<<"a">>), data |-> [data EXCEPT !.organization = Null]]

OrganizationRow(id, focusAreas) ==
    [id |-> id, name |-> Str(<<"a">>), focus_areas |-> focusAreas]

ProfileRow(id, userId, data) == [id |-> id, user_id |-> userId, data |-> data]

UserRow(id, accountStatus, deletedAt) ==
    [id |-> id, name |-> Str(<<"b">>), account_status |-> accountStatus,
     deleted_at |-> deletedAt]

ProfileCases ==
    {"absent", "full", "half", "no user id", "user missing", "suspended", "deleted"}

\* The profile rows and the user rows of slot i in a given case.
ProfilesOf(i, case) ==
    CASE case = "absent" -> {}
      [] case = "half" -> {ProfileRow(i, Num(i), HalfResearcher)}
      [] case = "no user id" -> {ProfileRow(i, Null, FullResearcher)}
      [] OTHER -> {ProfileRow(i, Num(i), FullResearcher)}

UsersOf(i, case) ==
    CASE case \in {"full", "half"} -> {UserRow(i, "active", Null)}
      [] case = "suspended" -> {UserRow(i, "suspended", Null)}
      [] case = "deleted" -> {UserRow(i, "active", Date(1))}
      [] OTHER -> {}

ProjectCases ==
    {"absent", "full", "half", "no organization", "organization missing", "closed"}

\* The project rows of slot i in a given case; organization 1 exists,
\* organization 2 does not.
ProjectsOf(i, case) ==
    CASE case = "absent" -> {}
      [] case = "full" -> {ProjectRow(i, "open", Num(1), FullProject)}
      [] case = "half" -> {ProjectRow(i, "open", Num(1), HalfProject)}
      [] case = "no organization" -> {ProjectRow(i, "open", Null, FullProject)}
      [] case = "organization missing" -> {ProjectRow(i, "open", Num(2), FullProject)}
      [] OTHER -> {ProjectRow(i, "closed", Num(1), FullProject)}

FixedProjects == ProjectsOf(1, "full") \cup ProjectsOf(2, "closed")
FixedProfiles == ProfilesOf(1, "full") \cup ProfilesOf(2, "half")
FixedUsers == UsersOf(1, "full") \cup UsersOf(2, "suspended")

\* The cases of slots 1..MaxRows: the first slot takes every case, the others
\* are absent or hold an ordinary row.
SlotCases(cases) ==
    {c \in [1..MaxRows -> cases] : \A i \in 2..MaxRows : c[i] \in {"absent", "full", "half"}}

\* Stores whose researchers vary, then stores whose projects vary.
Stores ==
    {[projects |-> FixedProjects,
      organizations |-> {OrganizationRow(1, Str(<<"a">>))},
      profiles |-> UNION {ProfilesOf(i, c[i]) : i \in 1..MaxRows},
      users |-> UNION {UsersOf(i, c[i]) : i \in 1..MaxRows}]
        : c \in SlotCases(ProfileCases)}
    \cup
    {[projects |-> UNION {ProjectsOf(i, c[i]) : i \in 1..MaxRows},
      organizations |-> {OrganizationRow(1, Str(<<"a">>))},
      profiles |-> FixedProfiles,
      users |-> FixedUsers]
        : c \in SlotCases(ProjectCases)}

\* Minimum scores, in tenths of a point.
MinScores == {0, 700, 1000}

OptionValues ==
    [limit : 0..MaxPage, offset : 0..MaxPage, minScore : MinScores]

\* Ids looked up: the slots, and one id no table holds.
IdValues == 1..(MaxRows + 1)

(***************************************************************************)
(* SpecService: one finder call against a store                            *)
(***************************************************************************)
InitService ==
    /\ project = NoRecord
    /\ researcher = NoRecord
    /\ args = NoArgs
    /\ ret = Null
    /\ pc = "ready"
    /\ store \in Stores
    /\ queries = <<>>
    /\ fetched = <<>>
    /\ called = <<>>
    /\ history = <<>>

\* A call of findMatchesForProject with options drawn from optionValues.
ProjectFinderCall(optionValues) ==
    /\ pc = "ready"
    /\ \E projectId \in IdValues, options \in optionValues,
          researchers \in OrderingsOf(ResearchersWithUser) :
         \E call \in {findMatchesForProject(projectId, options, researchers)} :
            /\ args' = <<"findMatchesForProject", projectId, options>>
            /\ ret' = call.ret
            /\ queries' = call.queries
            /\ fetched' = call.fetched
    /\ pc' = "done"
    /\ UNCHANGED <<project, researcher, store, called, history>>

FindMatchesForProject == ProjectFinderCall(OptionValues)

\* A call of findMatchesForResearcher with options drawn from optionValues.
ResearcherFinderCall(optionValues) ==
    /\ pc = "ready"
    /\ \E researcherId \in IdValues, options \in optionValues,
          projects \in OrderingsOf(CandidateProjects) :
         \E call \in {findMatchesForResearcher(researcherId, options, projects)} :
            /\ args' = <<"findMatchesForResearcher", researcherId, options>>
            /\ ret' = call.ret
            /\ queries' = call.queries
            /\ fetched' = call.fetched
    /\ pc' = "done"
    /\ UNCHANGED <<project, researcher, store, called, history>>

FindMatchesForResearcher == ResearcherFinderCall(OptionValues)

NextService == FindMatchesForProject \/ FindMatchesForResearcher

SpecService == InitService /\ [][NextService]_vars

(***************************************************************************)
(* Claims about the finders                                                *)
(***************************************************************************)
Returned == pc = "done" /\ ~IsError(ret)
CalledProjectFinder == pc = "done" /\ args[1] = "findMatchesForProject"
CalledResearcherFinder == pc = "done" /\ args[1] = "findMatchesForResearcher"

\* The position in the fetch of the candidate a match was built from.
FetchIndex(match) ==
    IF "researcher" \in DOMAIN match
    THEN CHOOSE i \in 1..Len(fetched) : fetched[i].user_id = match.researcher.user_id
    ELSE CHOOSE i \in 1..Len(fetched) : fetched[i].project_id = match.project.project_id

\* C12: the matches of either finder are in non-increasing matchScore order,
\* and matches of equal matchScore keep the relative order in which the fetch
\* returned their candidates.
C12_SortedAndStable ==
    Returned =>
        \A i, j \in 1..Len(ret.matches) :
            i < j =>
                /\ ret.matches[i].matchScore >= ret.matches[j].matchScore
                /\ ret.matches[i].matchScore = ret.matches[j].matchScore
                       => FetchIndex(ret.matches[i]) < FetchIndex(ret.matches[j])

\* A researcher-finder result of two matches with equal matchScore, returned
\* in their fetch order, which is not their id order.
C12_Witness ==
    /\ Returned
    /\ CalledResearcherFinder
    /\ Len(ret.matches) = 2
    /\ ret.matches[1].matchScore = ret.matches[2].matchScore
    /\ ret.matches[1].project.project_id > ret.matches[2].project.project_id

\* The organization row a project row points to, if the table holds it.
OrganizationOf(row) ==
    IF \E org \in store.organizations : Num(org.id) = row.org_id
    THEN CHOOSE org \in store.organizations : Num(org.id) = row.org_id
    ELSE Null

\* The profiles whose user account exists, is active and is not deleted.
ProfilesOfActiveUsers ==
    {r \in store.profiles :
        \E user \in store.users : /\ Num(user.id) = r.user_id
                                  /\ user.account_status = "active"
                                  /\ user.deleted_at = Null}

\* The anchor row of the call: the project, or the researcher profile.
AnchorProject == CHOOSE row \in store.projects : row.project_id = args[2]
AnchorProfile == CHOOSE row \in store.profiles : row.user_id = Num(args[2])

\* The eligible candidates of the call, each with its id and total score.
CandidateScores ==
    IF args[1] = "findMatchesForProject"
    THEN {[id |-> r.user_id.v,
           score |-> calculateMatchScore(
                         ProjectData(AnchorProject, OrganizationOf(AnchorProject)),
                         r.data).totalScore] : r \in ProfilesOfActiveUsers}
    ELSE {[id |-> p.project_id,
           score |-> calculateMatchScore(ProjectData(p, OrganizationOf(p)),
                                         AnchorProfile.data).totalScore]
            : p \in {row \in store.projects : row.status = "open"}}

ReachingMinScore == {c \in CandidateScores : c.score >= args[3].minScore}

\* C13: every returned match has matchScore >= minScore, pagination.total is
\* the number of eligible candidates with score >= minScore whatever limit
\* and offset are, and when no candidate reaches minScore the matches are
\* empty, total is 0 and hasMore is false.
C13_MinScoreAndTotal ==
    Returned =>
        /\ \A i \in 1..Len(ret.matches) : ret.matches[i].matchScore >= args[3].minScore
        /\ ret.pagination.total = Cardinality(ReachingMinScore)
        /\ ReachingMinScore = {} =>
               /\ ret.matches = <<>>
               /\ ret.pagination.total = 0
               /\ ret.pagination.hasMore = FALSE

\* Two eligible candidates, one below the minimum score: total counts the
\* other one although the requested page lies beyond it.
C13_Witness ==
    /\ Returned
    /\ Cardinality(CandidateScores) = 2
    /\ Cardinality(ReachingMinScore) = 1
    /\ ret.pagination.total = 1
    /\ args[3].offset = MaxPage
    /\ ret.matches = <<>>

\* The whole filtered, sorted ranking of the call: what the same finder
\* returns for the same fetch when the page covers every candidate.
Ranking ==
    LET whole == [args[3] EXCEPT !.offset = 0, !.limit = Len(fetched)]
    IN IF args[1] = "findMatchesForProject"
       THEN findMatchesForProject(args[2], whole, fetched).ret.matches
       ELSE findMatchesForResearcher(args[2], whole, fetched).ret.matches

\* C14: with limit >= 1 and offset >= 0 the matches are the elements at
\* positions offset .. offset+limit-1 of the ranking, max(0, min(limit,
\* total - offset)) of them, and hasMore is true exactly when
\* offset + limit < total.
C14_PageOfRanking ==
    (Returned /\ args[3].limit >= 1 /\ args[3].offset >= 0) =>
        LET limit == args[3].limit
            offset == args[3].offset
            total == ret.pagination.total
        IN /\ total = Len(Ranking)
           /\ Len(ret.matches) = Max(0, Min(limit, total - offset))
           /\ \A k \in 1..Len(ret.matches) : ret.matches[k] = Ranking[offset + k]
           /\ ret.pagination.hasMore = (offset + limit < total)

\* The second page of a ranking of two candidates with different scores.
C14_Witness ==
    /\ Returned
    /\ args[3].limit = 1
    /\ args[3].offset = 1
    /\ ret.pagination.total = 2
    /\ Len(ret.matches) = 1
    /\ ret.matches[1].matchScore < Ranking[1].matchScore
    /\ ret.pagination.hasMore = FALSE

\* The ranking of the call had the minimum score been 0.
UnfilteredRanking ==
    LET whole == [limit |-> Len(fetched), offset |-> 0, minScore |-> 0]
    IN IF args[1] = "findMatchesForProject"
       THEN findMatchesForProject(args[2], whole, fetched).ret.matches
       ELSE findMatchesForResearcher(args[2], whole, fetched).ret.matches

\* C15: findMatchesForProject returns no match for a profile whose user
\* account is missing, not 'active' or deleted, and every profile whose user
\* account is active and not deleted is scored and takes part in the ranking.
C15_ActiveUsersOnly ==
    (Returned /\ CalledProjectFinder) =>
        LET projectData == ProjectData(AnchorProject, OrganizationOf(AnchorProject))
        IN /\ \A i \in 1..Len(ret.matches) :
                  \E r \in ProfilesOfActiveUsers :
                      r.user_id = ret.matches[i].researcher.user_id
           /\ \A k \in 1..Len(UnfilteredRanking) :
                  \E r \in ProfilesOfActiveUsers :
                      r.user_id = UnfilteredRanking[k].researcher.user_id
           /\ \A r \in ProfilesOfActiveUsers :
                  \E k \in 1..Len(UnfilteredRanking) :
                      /\ UnfilteredRanking[k].researcher.user_id = r.user_id
                      /\ UnfilteredRanking[k].matchScore =
                             calculateMatchScore(projectData, r.data).totalScore

\* Two profiles are fetched, one of an active user and one of a deleted
\* user; only the first is returned.
C15_Witness ==
    /\ Returned
    /\ CalledProjectFinder
    /\ Len(fetched) = 2
    /\ \E user \in store.users : user.deleted_at # Null
    /\ args[3].minScore = 0
    /\ ret.pagination.total = 1
    /\ Len(ret.matches) = 1

\* The total score of a project row against the researcher of the call.
ScoreOfProject(row) ==
    calculateMatchScore(ProjectData(row, OrganizationOf(row)),
                        AnchorProfile.data).totalScore

\* C16: findMatchesForResearcher returns only projects whose status is
\* 'open'; a project in another status is neither in the matches nor counted
\* in pagination.total, whatever it would score.
C16_OpenProjectsOnly ==
    (Returned /\ CalledResearcherFinder) =>
        /\ \A i \in 1..Len(ret.matches) :
               \E row \in store.projects :
                   /\ row.project_id = ret.matches[i].project.project_id
                   /\ row.status = "open"
        /\ \A i \in 1..Len(fetched) : fetched[i].status = "open"
        /\ ret.pagination.total =
               Cardinality({row \in store.projects :
                               /\ row.status = "open"
                               /\ ScoreOfProject(row) >= args[3].minScore})

\* A closed project that would score 100 is left out next to an open one.
C16_Witness ==
    /\ Returned
    /\ CalledResearcherFinder
    /\ \E row \in store.projects : /\ row.status = "closed"
                                   /\ ScoreOfProject(row) = 1000
    /\ args[3].minScore = 0
    /\ ret.pagination.total = 1
    /\ Len(ret.matches) = 1

\* C17: findMatchesForProject fails with 'Project not found' when no project
\* has the id, findMatchesForResearcher fails with 'Researcher profile not
\* found' when no profile has the user id; the anchor lookup is then the only
\* query made, no candidate is fetched and nothing else is returned.
C17_NotFound ==
    /\ (CalledProjectFinder /\ ~\E row \in store.projects : row.project_id = args[2])
           => /\ ret = [error |-> "Project not found"]
              /\ queries = <<"Project.findByPk">>
              /\ fetched = <<>>
    /\ (CalledResearcherFinder /\ ~\E row \in store.profiles : row.user_id = Num(args[2]))
           => /\ ret = [error |-> "Researcher profile not found"]
              /\ queries = <<"ResearcherProfile.findOne">>
              /\ fetched = <<>>

\* The researcher finder is called with a user id no profile has, in a store
\* that holds profiles and open projects.
C17_Witness ==
    /\ CalledResearcherFinder
    /\ ~\E row \in store.profiles : row.user_id = Num(args[2])
    /\ store.profiles # {}
    /\ \E row \in store.projects : row.status = "open"
    /\ IsError(ret)
    /\ fetched = <<>>

(***************************************************************************)
(* Request handlers (backend/src/controllers/matchController.js).  Query   *)
(* parameters arrive as strings, or are absent (Null).  limit and offset   *)
(* are integers; minScore is in tenths of a point, like every score, and   *)
(* the query strings modelled carry at most one decimal digit.             *)
(***************************************************************************)
Digits == <<"0", "1", "2", "3", "4", "5", "6", "7", "8", "9">>
IsDigit(c) == \E i \in 1..Len(Digits) : Digits[i] = c
DigitValue(c) == (CHOOSE i \in 1..Len(Digits) : Digits[i] = c) - 1

\* The longest prefix of s made of digits.
RECURSIVE LeadingDigits(_)
LeadingDigits(s) ==
    IF s # <<>> /\ IsDigit(Head(s)) THEN <<Head(s)>> \o LeadingDigits(Tail(s))
    ELSE <<>>

\* The number a sequence of digits denotes.
RECURSIVE DecimalValue(_)
DecimalValue(ds) ==
    IF ds = <<>> THEN 0
    ELSE 10 * DecimalValue(SubSeq(ds, 1, Len(ds) - 1)) + DigitValue(ds[Len(ds)])

\* The sign a numeric string starts with, and the string behind it.
SignOf(s) == IF s # <<>> /\ Head(s) = "-" THEN -1 ELSE 1
Unsigned(s) == IF s # <<>> /\ Head(s) \in {"-", "+"} THEN Tail(s) ELSE s

\* parseInt(x): leading white space, a sign and the leading digits; NaN when
\* there are none.  A number (the destructuring default) is returned as is.
ParseInt(x) ==
    IF x.t = "num" THEN x
    ELSE IF x.t # "str" THEN NaN
    ELSE LET body == Unsigned(TrimStart(x.v))
             digits == LeadingDigits(body)
         IN IF digits = <<>> THEN NaN
            ELSE Num(SignOf(TrimStart(x.v)) * DecimalValue(digits))

\* parseFloat(x), in tenths: as parseInt, with an optional fraction.
ParseFloat(x) ==
    IF x.t = "num" THEN x
    ELSE IF x.t # "str" THEN NaN
    ELSE LET body == Unsigned(TrimStart(x.v))
             digits == LeadingDigits(body)
             rest == SubSeq(body, Len(digits) + 1, Len(body))
             fraction == IF rest # <<>> /\ Head(rest) = "."
                         THEN LeadingDigits(Tail(rest)) ELSE <<>>
             tenths == IF fraction = <<>> THEN 0 ELSE DigitValue(fraction[1])
         IN IF digits = <<>> /\ fraction = <<>> THEN NaN
            ELSE Num(SignOf(TrimStart(x.v)) * (10 * DecimalValue(digits) + tenths))

\* const { name = value } = req.query
Default(x, value) == IF x = Null THEN value ELSE x

\* validLimit, validOffset and validMinScore of both list handlers.
ValidOptions(query) ==
    [limit |-> Min(Max(Or(ParseInt(Default(query.limit, Num(20))), Num(20)).v, 1), 100),
     offset |-> Max(Or(ParseInt(Default(query.offset, Num(0))), Num(0)).v, 0),
     minScore |-> Max(Min(Or(ParseFloat(Default(query.minScore, Num(500))),
                             Num(500)).v, 1000), 0)]

\* res.status(status).json(body)
Respond(status, body) == [status |-> status, body |-> body]

\* What a handler leaves behind: its response and the calls it made.
Outcome(response, log, rows, calls) ==
    [ret |-> response, queries |-> log, fetched |-> rows, called |-> calls]

\* getProjectMatches: req.params.projectId, req.query, req.user and the rows
\* ResearcherProfile.findAll returns to the service.
getProjectMatches(projectId, query, user, researchers) ==
    LET options == ValidOptions(query)
        row == ProjectFindByPk(projectId)
    IN IF row = Null
       THEN Outcome(Respond(404, [success |-> FALSE, error |-> "Project not found"]),
                    <<"Project.findByPk">>, <<>>, <<>>)
       ELSE IF ~Truthy(user)
       THEN Outcome(Respond(401, [success |-> FALSE, error |-> "Authentication required"]),
                    <<"Project.findByPk">>, <<>>, <<>>)
       ELSE LET calls == <<[fn |-> "findMatchesForProject", id |-> projectId,
                            options |-> options]>>
            IN The({
               IF IsError(call.ret)
               THEN Outcome(Respond(500, [success |-> FALSE,
                                          error |-> "Failed to calculate matches",
                                          message |-> call.ret.error]),
                            <<"Project.findByPk">> \o call.queries, call.fetched, calls)
               ELSE Outcome(Respond(200, [success |-> TRUE,
                                          matches |-> call.ret.matches,
                                          pagination |-> call.ret.pagination,
                                          project |-> [project_id |-> row.project_id,
                                                       title |-> row.title,
                                                       status |-> row.status]]),
                            <<"Project.findByPk">> \o call.queries, call.fetched, calls)
                  : call \in {findMatchesForProject(projectId, options, researchers)}})

\* getResearcherMatches: req.query, req.user and the rows Project.findAll
\* returns to the service.  An error thrown by the service reaches the catch
\* block.
getResearcherMatches(query, user, projects) ==
    LET options == ValidOptions(query)
    IN IF ~Truthy(user) \/ ~Truthy(Num(user.v.id))
       THEN Outcome(Respond(401, [success |-> FALSE, error |-> "Authentication required"]),
                    <<>>, <<>>, <<>>)
       ELSE LET calls == <<[fn |-> "findMatchesForResearcher", id |-> user.v.id,
                            options |-> options]>>
            IN The({
               IF IsError(call.ret)
               THEN Outcome(Respond(500, [success |-> FALSE,
                                          error |-> "Failed to calculate matches",
                                          message |-> call.ret.error]),
                            call.queries, call.fetched, calls)
               ELSE Outcome(Respond(200, [success |-> TRUE,
                                          matches |-> call.ret.matches,
                                          pagination |-> call.ret.pagination,
                                          researcher |-> [user_id |-> user.v.id]]),
                            call.queries, call.fetched, calls)
                  : call \in {findMatchesForResearcher(user.v.id, options, projects)}})

\* One entry of detailedBreakdown: score in tenths, max in points.
Factor(score, max) ==
    [score |-> score, max |-> max, percentage |-> Round(score * 100, max * 10)]

\* Mutant: the budget factor is reported out of 10.
DetailedBreakdown_BudgetOutOfTen(breakdown) ==
    [expertise |-> Factor(breakdown.expertise, 30),
     methods |-> Factor(breakdown.methods, 25),
     budget |-> Factor(breakdown.budget, 10),
     availability |-> Factor(breakdown.availability, 10),
     experience |-> Factor(breakdown.experience, 10),
     domain |-> Factor(breakdown.domain, 10)]

\* detailedBreakdown of explainMatch, without the explanation texts.
DetailedBreakdown(breakdown) ==
    [expertise |-> Factor(breakdown.expertise, 30),
     methods |-> Factor(breakdown.methods, 25),
     budget |-> Factor(breakdown.budget, 15),
     availability |-> Factor(breakdown.availability, 10),
     experience |-> Factor(breakdown.experience, 10),
     domain |-> Factor(breakdown.domain, 10)]

\* Project.findByPk(projectId, { include: organization }).toJSON()
ProjectWithOrganization(row) ==
    ProjectData(row, IF \E org \in store.organizations : Num(org.id) = row.org_id
                     THEN CHOOSE org \in store.organizations : Num(org.id) = row.org_id
                     ELSE Null)

\* explainMatch: req.query.projectId, req.query.researcherId and req.user.
explainMatch(query, user) ==
    IF ~Truthy(query.projectId) \/ ~Truthy(query.researcherId)
    THEN Outcome(Respond(400, [success |-> FALSE,
                               error |-> "Both projectId and researcherId are required"]),
                 <<>>, <<>>, <<>>)
    ELSE IF ~Truthy(user)
    THEN Outcome(Respond(401, [success |-> FALSE, error |-> "Authentication required"]),
                 <<>>, <<>>, <<>>)
    ELSE LET row == ProjectFindByPk(query.projectId.v)
             profile == ResearcherFindOne(query.researcherId.v)
             log == <<"Project.findByPk", "ResearcherProfile.findOne">>
         IN IF row = Null \/ profile = Null
            THEN Outcome(Respond(404, [success |-> FALSE,
                                       error |-> "Project or researcher not found"]),
                         log, <<>>, <<>>)
            ELSE LET scoreData == calculateMatchScore(ProjectWithOrganization(row),
                                                      profile.data)
                 IN Outcome(Respond(200, [success |-> TRUE,
                                          totalScore |-> scoreData.totalScore,
                                          breakdown |-> DetailedBreakdown(scoreData.breakdown),
                                          strengths |-> scoreData.strengths,
                                          concerns |-> scoreData.concerns,
                                          project |-> [project_id |-> row.project_id,
                                                       title |-> row.title],
                                          researcher |-> [user_id |-> profile.user_id]]),
                            log, <<>>, <<>>)

(***************************************************************************)
(* SpecHttp: one request against a store                                   *)
(***************************************************************************)
\* limit and offset as they can appear in the query string.
PageQueries ==
    {Null, Str(<<"a">>), Str(<<"-", "1">>), Str(<<"0">>), Str(<<"1">>), Str(<<"2">>),
     Str(<<"1", "5", "0">>)}

\* minScore as it can appear in the query string.
MinScoreQueries ==
    {Null, Str(<<"a">>), Str(<<"-", "1">>), Str(<<"0">>), Str(<<"7", "0">>),
     Str(<<"1", "0", "0">>), Str(<<"1", "5", "0">>)}

ListQueries == [limit : PageQueries, offset : PageQueries, minScore : MinScoreQueries]

\* req.user: absent, or the authenticated user.
ReqUsers == {Null} \cup {Obj([id |-> i]) : i \in IdValues}

\* projectId and researcherId of the explain query: absent, or an id.
ExplainQueries ==
    [projectId : {Null} \cup {Num(i) : i \in IdValues},
     researcherId : {Null} \cup {Num(i) : i \in IdValues}]

HttpStore ==
    [projects |-> FixedProjects,
     organizations |-> {OrganizationRow(1, Str(<<"a">>))},
     profiles |-> FixedProfiles,
     users |-> FixedUsers]

InitHttp ==
    /\ project = NoRecord
    /\ researcher = NoRecord
    /\ args = NoArgs
    /\ ret = Null
    /\ pc = "ready"
    /\ store = HttpStore
    /\ queries = <<>>
    /\ fetched = <<>>
    /\ called = <<>>
    /\ history = <<>>

\* Mutant: a request answered 200 closes the stored projects.
Handled_ClosingProjects(outcome) ==
    /\ ret' = outcome.ret
    /\ queries' = outcome.queries
    /\ fetched' = outcome.fetched
    /\ called' = outcome.called
    /\ pc' = "done"
    /\ store' = IF outcome.ret.status = 200
                THEN [store EXCEPT !.projects =
                         {[row EXCEPT !.status = "closed"] : row \in store.projects}]
                ELSE store
    /\ UNCHANGED <<project, researcher, history>>

\* The handler's outcome becomes the next state.
Handled(outcome) ==
    /\ ret' = outcome.ret
    /\ queries' = outcome.queries
    /\ fetched' = outcome.fetched
    /\ called' = outcome.called
    /\ pc' = "done"
    /\ UNCHANGED <<project, researcher, store, history>>

\* GET /api/matches/project/:projectId
GetProjectMatches ==
    /\ pc = "ready"
    /\ \E projectId \in IdValues, query \in ListQueries, user \in ReqUsers,
          researchers \in OrderingsOf(ResearchersWithUser) :
         /\ args' = <<"getProjectMatches", projectId, query, user>>
         /\ \E outcome \in {getProjectMatches(projectId, query, user, researchers)} :
                Handled(outcome)

\* GET /api/matches/researcher/me
GetResearcherMatches ==
    /\ pc = "ready"
    /\ \E query \in ListQueries, user \in ReqUsers,
          projects \in OrderingsOf(CandidateProjects) :
         /\ args' = <<"getResearcherMatches", Null, query, user>>
         /\ \E outcome \in {getResearcherMatches(query, user, projects)} :
                Handled(outcome)

\* GET /api/matches/explain
ExplainMatch ==
    /\ pc = "ready"
    /\ \E query \in ExplainQueries, user \in ReqUsers :
         /\ args' = <<"explainMatch", Null, query, user>>
         /\ \E outcome \in {explainMatch(query, user)} : Handled(outcome)

NextHttp == GetProjectMatches \/ GetResearcherMatches \/ ExplainMatch

SpecHttp == InitHttp /\ [][NextHttp]_vars

(***************************************************************************)
(* SpecExplain: explain requests against a store that holds one project    *)
(* and one researcher profile, a pair of the kind Spec scores.             *)
(***************************************************************************)
StoreOf(p, r) ==
    [projects |-> {ProjectRow(1, "open",
                              IF Truthy(p.organization) THEN Num(1) ELSE Null, p)},
     organizations |-> IF Truthy(p.organization)
                       THEN {OrganizationRow(1, p.organization.v.focus_areas)}
                       ELSE {},
     profiles |-> {ProfileRow(1, Num(1), r)},
     users |-> {UserRow(1, "active", Null)}]

\* Every required-methods text against the one-tag researcher texts.
RequiredMethodsColumns(base) ==
    \E required \in TextValues(MaxItems), available \in TextValues(1) :
        /\ project = [base[1] EXCEPT !.methods_required = required]
        /\ researcher = [base[2] EXCEPT !.methods = available]

InitExplain ==
    /\ \E base \in Profiles :
           \/ ExpertiseColumns(base, 1)
           \/ RequiredMethodsColumns(base)
           \/ BudgetColumns(base)
           \/ AvailabilityColumns(base)
           \/ ExperienceColumns(base)
           \/ DomainColumns(base, 1)
    /\ args = NoArgs
    /\ ret = Null
    /\ pc = "ready"
    /\ store = StoreOf(project, researcher)
    /\ queries = <<>>
    /\ fetched = <<>>
    /\ called = <<>>
    /\ history = <<>>

NextExplain == ExplainMatch

SpecExplain == InitExplain /\ [][NextExplain]_vars

(***************************************************************************)
(* Claims about the request handlers                                       *)
(***************************************************************************)
Answered == pc = "done"
ProjectExists(id) == \E row \in store.projects : row.project_id = id
ProfileExists(userId) == \E row \in store.profiles : row.user_id = Num(userId)

\* C18: for an authenticated caller each of the three operations answers 404
\* whenever the project or researcher profile it needs does not exist: the
\* project on the project-matches route, the caller's profile on the
\* researcher-matches route, either of the two on the explain route.
C18_NotFoundIs404 ==
    (Answered /\ Truthy(args[4])) =>
        /\ (args[1] = "getProjectMatches" /\ ~ProjectExists(args[2]))
               => ret.status = 404
        /\ (args[1] = "getResearcherMatches" /\ ~ProfileExists(args[4].v.id))
               => ret.status = 404
        /\ (/\ args[1] = "explainMatch"
            /\ Truthy(args[3].projectId) /\ Truthy(args[3].researcherId)
            /\ \/ ~ProjectExists(args[3].projectId.v)
               \/ ~ProfileExists(args[3].researcherId.v))
               => ret.status = 404

\* A query value that is a number: an optional minus sign and digits.
IsNumeric(x) ==
    /\ x.t = "str"
    /\ Unsigned(x.v) # <<>>
    /\ \A i \in 1..Len(Unsigned(x.v)) : IsDigit(Unsigned(x.v)[i])

NumericValue(x) == SignOf(x.v) * DecimalValue(Unsigned(x.v))

Clamp(value, low, high) == Min(Max(value, low), high)

\* C19: the options handed to the finder are the supplied numeric values
\* clamped: limit to 1..100 (0 becomes 1), offset to >= 0, minScore to
\* 0..100 (0 stays 0); 20, 0 and 50 are used only for a parameter that is
\* absent or not a number.
C19_OptionsClamped ==
    (Answered /\ called # <<>>) =>
        LET query == args[3]
            options == called[1].options
        IN /\ options.limit = IF IsNumeric(query.limit)
                              THEN Clamp(NumericValue(query.limit), 1, 100) ELSE 20
           /\ options.offset = IF IsNumeric(query.offset)
                               THEN Max(NumericValue(query.offset), 0) ELSE 0
           /\ options.minScore = IF IsNumeric(query.minScore)
                                 THEN Clamp(10 * NumericValue(query.minScore), 0, 1000)
                                 ELSE 500

FactorNames == {"expertise", "methods", "budget", "availability", "experience", "domain"}

\* The maximum of each factor, in points.
FactorMax ==
    [expertise |-> 30, methods |-> 25, budget |-> 15,
     availability |-> 10, experience |-> 10, domain |-> 10]

\* percentage is the integer nearest to score / max x 100 (score in tenths),
\* halves going up.
IsPercentageOf(percentage, score, max) ==
    /\ (2 * percentage - 1) * max * 10 <= 200 * score
    /\ 200 * score < (2 * percentage + 1) * max * 10

\* C20: for an existing project p and researcher profile r, explain returns
\* the totalScore, strengths and concerns of calculateMatchScore(p, r), and
\* per factor the breakdown value as score, 30/25/15/10/10/10 as max and
\* round(score / max x 100) as percentage, which lies in 0..100.
C20_ExplainAgrees ==
    (Answered /\ ret.status = 200) =>
        LET expected == calculateMatchScore(project, researcher)
        IN /\ ret.body.totalScore = expected.totalScore
           /\ ret.body.strengths = expected.strengths
           /\ ret.body.concerns = expected.concerns
           /\ \A f \in FactorNames :
                  /\ ret.body.breakdown[f].score = expected.breakdown[f]
                  /\ ret.body.breakdown[f].max = FactorMax[f]
                  /\ ret.body.breakdown[f].percentage \in 0..100
                  /\ IsPercentageOf(ret.body.breakdown[f].percentage,
                                    expected.breakdown[f], FactorMax[f])

\* Two of three required methods are covered: methods is 16.7 of 25, 67 %.
C20_Witness ==
    /\ Answered
    /\ ret.status = 200
    /\ ret.body.breakdown.methods.score = 167
    /\ ret.body.breakdown.methods.percentage = 67
    /\ ret.body.totalScore = calculateMatchScore(project, researcher).totalScore

(***************************************************************************)
(* Claims about the tags and the budget factor of a Match                  *)
(***************************************************************************)
\* The strength texts and the concern text of each factor that has both.
OpposedTags ==
    {<<{"Strong expertise match"}, "Limited expertise overlap">>,
     <<{"All required methods present", "Most required methods present"},
       "Missing some required methods">>,
     <<{"Rate fits within budget"}, "Rate may not fit budget">>,
     <<{"Available and has capacity"}, "May not be available or at capacity">>}

\* C28: no Match carries both a strength tag and the concern tag of the same
\* factor (expertise, methods, budget, availability).
C28_NoOpposedTags ==
    pc = "done" =>
        \A pair \in OpposedTags :
            ~(/\ pair[1] \cap TagTexts(ret.strengths) # {}
              /\ pair[2] \in TagTexts(ret.concerns))

\* A Match with a strength on one factor and concerns on others.
C28_Witness ==
    /\ pc = "done"
    /\ "Available and has capacity" \in TagTexts(ret.strengths)
    /\ "Most required methods present" \in TagTexts(ret.strengths)
    /\ "Limited expertise overlap" \in TagTexts(ret.concerns)
    /\ "Rate may not fit budget" \in TagTexts(ret.concerns)

\* The budget range and the researcher's cost range in effect: budget_max
\* falls back to budget_min, estimated_hours to 100, rate_* to hourly_rate_*.
BudgetRange(p) ==
    [min |-> Amount(p.budget_min),
     max |-> IF Amount(p.budget_max) = 0 THEN Amount(p.budget_min)
             ELSE Amount(p.budget_max)]

CostRange(p, r) ==
    LET hours == IF Amount(p.estimated_hours) = 0 THEN 100 ELSE Amount(p.estimated_hours)
    IN [min |-> Amount(ResolvedRateMin(r)) * hours,
        max |-> Amount(ResolvedRateMax(r)) * hours]

IsPoint(range) == range.min = range.max
Length(range) == range.max - range.min
OverlapLength(a, b) == Max(0, Min(a.max, b.max) - Max(a.min, b.min))

\* C29: when the budget range or the cost range is a single point (as when
\* budget_max is absent) the budget sub-score is 0 and 'Rate may not fit
\* budget' is emitted, even for a point inside the other range; the sub-score
\* is 15 only when the ranges overlap on at least 299/300 of their average
\* length.
C29_PointRangeScoresZero ==
    pc = "done" =>
        LET budget == BudgetRange(project)
            cost == CostRange(project, researcher)
        IN /\ (IsPoint(budget) \/ IsPoint(cost))
                  => /\ ret.breakdown.budget = 0
                     /\ "Rate may not fit budget" \in TagTexts(ret.concerns)
           /\ ret.breakdown.budget = 150
                  => /\ ~IsPoint(budget) /\ ~IsPoint(cost)
                     /\ 600 * OverlapLength(budget, cost)
                            >= 299 * (Length(budget) + Length(cost))

\* A budget of 3 with no budget_max, strictly inside the cost range [2, 4].
C29_Witness ==
    /\ pc = "done"
    /\ project.budget_min = Num(3) /\ project.budget_max = Null
    /\ CostRange(project, researcher) = [min |-> 2, max |-> 4]
    /\ ret.breakdown.budget = 0
    /\ "Rate may not fit budget" \in TagTexts(ret.concerns)

(***************************************************************************)
(* SpecFields: calculateMatchScore on records whose text fields are        *)
(* missing, empty, blank or not strings.                                   *)
(***************************************************************************)
\* What a text column can hold: nothing, an empty or blank string, a number,
\* a date object, or a tag.
FieldValues ==
    {Null, Str(<<>>), Str(<<" ">>), Str(<<",">>), Num(0), Num(5), Date(1),
     Str(<<"a">>), Str(<<"b">>)}

InitFields ==
    /\ \E base \in Profiles :
           \/ \E problem \in FieldValues, outcomes \in FieldValues,
                 expertise \in FieldValues :
                  /\ project = [base[1] EXCEPT !.problem = problem, !.outcomes = outcomes]
                  /\ researcher = [base[2] EXCEPT !.expertise = expertise]
           \/ \E required \in FieldValues, available \in FieldValues :
                  /\ project = [base[1] EXCEPT !.methods_required = required]
                  /\ researcher = [base[2] EXCEPT !.methods = available]
           \/ \E organization \in {Null} \cup {Obj([focus_areas |-> f]) : f \in FieldValues},
                 domains \in FieldValues :
                  /\ project = [base[1] EXCEPT !.organization = organization]
                  /\ researcher = [base[2] EXCEPT !.domains = domains]
    /\ args = NoArgs
    /\ ret = Null
    /\ pc = "ready"
    /\ NoData

NextFields == ScoreMatch

SpecFields == InitFields /\ [][NextFields]_vars

\* A field that is missing, null, empty or not a string.
IsMissing(x) == x = Null \/ x.t # "str" \/ x.v = <<>>

\* The Match has every part, and its breakdown every factor.
IsCompleteMatch(match) ==
    /\ DOMAIN match = {"totalScore", "breakdown", "strengths", "concerns"}
    /\ DOMAIN match.breakdown = FactorNames
    /\ \A f \in FactorNames : match.breakdown[f] \in 0..(10 * FactorMax[f])

\* The focus areas calculateMatchScore reads, absent without an organization.
FocusAreas(p) == IF p.organization = Null THEN Null ELSE p.organization.v.focus_areas

\* C23 (as claimed): with a text field missing, null, empty or not a string,
\* calculateMatchScore still returns a complete Match, and the factor that
\* reads the field (expertise, methods, domain) is 0.
C23_MissingFieldOriginal ==
    pc = "done" =>
        /\ IsCompleteMatch(ret)
        /\ (IsMissing(researcher.expertise)
               \/ (IsMissing(project.problem) /\ IsMissing(project.outcomes)))
               => ret.breakdown.expertise = 0
        /\ (IsMissing(project.methods_required) \/ IsMissing(researcher.methods))
               => ret.breakdown.methods = 0
        /\ (IsMissing(FocusAreas(project)) \/ IsMissing(researcher.domains))
               => ret.breakdown.domain = 0

\* C23 (amended): as claimed for expertise and domain; methods is the full 25
\* when methods_required is missing, and 0 when methods_required is given and
\* the researcher's methods are missing.
C23_MissingFieldAmended ==
    pc = "done" =>
        /\ IsCompleteMatch(ret)
        /\ (IsMissing(researcher.expertise)
               \/ (IsMissing(project.problem) /\ IsMissing(project.outcomes)))
               => ret.breakdown.expertise = 0
        /\ IsMissing(project.methods_required) => ret.breakdown.methods = 250
        /\ (~IsMissing(project.methods_required) /\ IsMissing(researcher.methods))
               => ret.breakdown.methods \in {0, 250}
        /\ (/\ project.methods_required \in {Str(<<"a">>), Str(<<"b">>)}
            /\ IsMissing(researcher.methods))
               => ret.breakdown.methods = 0
        /\ (IsMissing(FocusAreas(project)) \/ IsMissing(researcher.domains))
               => ret.breakdown.domain = 0

\* methods_required is a number, not a string: the Match is complete and its
\* methods factor is the full 25, while the organization has no focus areas
\* and the domain factor is 0.
C23_Witness ==
    /\ pc = "done"
    /\ project.methods_required = Num(5)
    /\ project.organization = Null
    /\ IsCompleteMatch(ret)
    /\ ret.breakdown.methods = 250
    /\ ret.breakdown.domain = 0

(***************************************************************************)
(* SpecRates: findMatchesForProject over one open project and one active   *)
(* researcher, for every combination of the four rate columns.             *)
(***************************************************************************)
InitRates ==
    /\ \E budgetMin \in {Num(1), Num(100)}, budgetMax \in {Null, Num(200)} :
           project = [FullProject EXCEPT !.budget_min = budgetMin,
                                         !.budget_max = budgetMax]
    /\ \E rateMin \in RateValues, rateMax \in RateValues,
          hourlyMin \in RateValues, hourlyMax \in RateValues :
           researcher = [FullResearcher EXCEPT !.rate_min = rateMin,
                                               !.rate_max = rateMax,
                                               !.hourly_rate_min = hourlyMin,
                                               !.hourly_rate_max = hourlyMax]
    /\ args = NoArgs
    /\ ret = Null
    /\ pc = "ready"
    /\ store = StoreOf(project, researcher)
    /\ queries = <<>>
    /\ fetched = <<>>
    /\ called = <<>>
    /\ history = <<>>

NextRates == FindMatchesForProject

SpecRates == InitRates /\ [][NextRates]_vars

\* The estimated hours in effect for the project.
HoursInEffect(p) == IF Amount(p.estimated_hours) = 0 THEN 100 ELSE Amount(p.estimated_hours)

\* C27: in every entry findMatchesForProject returns, the budget sub-score is
\* the one computed from the rate_min and rate_max the entry shows.
C27_ShownRateIsScoredRate ==
    (Returned /\ args[1] = "findMatchesForProject") =>
        \A i \in 1..Len(ret.matches) :
            LET entry == ret.matches[i]
            IN entry.scoreBreakdown.budget
                   = BudgetExpected(project, entry.researcher.rate_min,
                                    entry.researcher.rate_max, HoursInEffect(project))

(***************************************************************************)
(* SpecOptions: the finders called with the options argument omitted or    *)
(* with some of limit, offset and minScore left out of it.                 *)
(***************************************************************************)
\* Every record over a subset of limit and offset.
PartialOptions ==
    UNION {[names -> 0..MaxPage] : names \in SUBSET {"limit", "offset"}}

\* The options argument omitted, minScore left out, or minScore given and
\* limit or offset left out.
IncompleteOptionValues ==
    {Null}
        \cup PartialOptions
        \cup {o @@ [minScore |-> 0]
                 : o \in {o \in PartialOptions : DOMAIN o # {"limit", "offset"}}}

FindMatchesForProjectIncomplete == ProjectFinderCall(IncompleteOptionValues)

FindMatchesForResearcherIncomplete == ResearcherFinderCall(IncompleteOptionValues)

NextOptions == FindMatchesForProjectIncomplete \/ FindMatchesForResearcherIncomplete

SpecOptions == InitService /\ [][NextOptions]_vars

\* C30: with the options argument omitted or a field missing from it, either
\* finder returns what it returns for the options completed with limit 20,
\* offset 0 and minScore 50.
C30_DefaultsInBothFinders ==
    pc = "done" =>
        LET complete == DefaultOptions(args[3])
        IN /\ args[1] = "findMatchesForResearcher"
                => ret = findMatchesForResearcher(args[2], complete, fetched).ret
           /\ (args[1] = "findMatchesForProject" /\ ProjectExists(args[2]))
                => /\ ~IsError(ret)
                   /\ ret = findMatchesForProject(args[2], complete, fetched).ret

(***************************************************************************)
(* SpecPaths: the explain operation against the stores of the finders, to  *)
(* compare the three ways a (project, researcher) pair is scored.          *)
(***************************************************************************)
NextPaths == ExplainMatch

SpecPaths == InitService /\ [][NextPaths]_vars

\* Options under which a finder returns every candidate.
Everything == [limit |-> MaxRows + 1, offset |-> 0, minScore |-> 0]

\* The entries findMatchesForProject(projectId) holds for the researcher.
ViaProject(projectId, researcherId) ==
    LET researchers == CHOOSE q \in OrderingsOf(ResearchersWithUser) : TRUE
        found == findMatchesForProject(projectId, Everything, researchers).ret.matches
    IN {found[i] : i \in {i \in 1..Len(found) : found[i].researcher.user_id = Num(researcherId)}}

\* The entries findMatchesForResearcher(researcherId) holds for the project.
ViaResearcher(projectId, researcherId) ==
    LET projects == CHOOSE q \in OrderingsOf(CandidateProjects) : TRUE
        found == findMatchesForResearcher(researcherId, Everything, projects).ret.matches
    IN {found[i] : i \in {i \in 1..Len(found) : found[i].project.project_id = projectId}}

\* The explain operation answered 200 for an open project and a researcher
\* whose account is active and not deleted.
ExplainedOpenAndActive ==
    /\ pc = "done"
    /\ args[1] = "explainMatch"
    /\ ret.status = 200
    /\ \E row \in OpenProjects : row.project_id = args[3].projectId.v
    /\ \E r \in ProfilesOfActiveUsers : r.user_id = args[3].researcherId

\* C26: for an open project and a researcher with an active, not deleted
\* account, findMatchesForProject, findMatchesForResearcher and the explain
\* operation report the same total score and the same six factor scores.
C26_ThreePathsAgree ==
    ExplainedOpenAndActive =>
        LET viaProject == ViaProject(args[3].projectId.v, args[3].researcherId.v)
            viaResearcher == ViaResearcher(args[3].projectId.v, args[3].researcherId.v)
        IN /\ Cardinality(viaProject) = 1
           /\ Cardinality(viaResearcher) = 1
           /\ \A entry \in viaProject \cup viaResearcher :
                  /\ entry.matchScore = ret.body.totalScore
                  /\ \A f \in FactorNames :
                         entry.scoreBreakdown[f] = ret.body.breakdown[f].score

\* The pair is scored with the organization loaded: the domain factor is the
\* full 10 on each of the three paths.
C26_Witness ==
    /\ ExplainedOpenAndActive
    /\ ret.body.breakdown.domain.score = 100
    /\ \E entry \in ViaProject(args[3].projectId.v, args[3].researcherId.v) :
           entry.scoreBreakdown.domain = 100
    /\ \E entry \in ViaResearcher(args[3].projectId.v, args[3].researcherId.v) :
           entry.scoreBreakdown.domain = 100

(***************************************************************************)
(* SpecFailure: finder calls during which one data-layer fetch may fail.   *)
(***************************************************************************)
\* The error a failed fetch rejects with.
DataLayerError == Error("SequelizeDatabaseError")

\* The queries of a finder that return the candidate rows.
CandidateFetches == {"ResearcherProfile.findAll", "Project.findAll"}

\* Mutant: a failed User.findAll is taken for an empty user list.
Failing_UsersSwallowed(call, failAt) ==
    IF failAt \in 1..Len(call.queries)
    THEN IF call.queries[failAt] = "User.findAll"
         THEN [call EXCEPT !.ret = [matches |-> <<>>,
                                    pagination |-> [call.ret.pagination EXCEPT
                                                       !.total = 0, !.hasMore = FALSE]]]
         ELSE [ret |-> DataLayerError,
               queries |-> SubSeq(call.queries, 1, failAt),
               fetched |-> IF \E k \in 1..(failAt - 1) : call.queries[k] \in CandidateFetches
                           THEN call.fetched ELSE <<>>]
    ELSE call

\* A finder call whose failAt-th fetch fails (none when failAt is 0): the
\* awaited query rejects, the finder has no try/catch, and the rejection is
\* the outcome of the call.
Failing(call, failAt) ==
    IF failAt \in 1..Len(call.queries)
    THEN [ret |-> DataLayerError,
          queries |-> SubSeq(call.queries, 1, failAt),
          fetched |-> IF \E k \in 1..(failAt - 1) : call.queries[k] \in CandidateFetches
                      THEN call.fetched ELSE <<>>]
    ELSE call

FindMatchesForProjectFailing ==
    /\ pc = "ready"
    /\ \E projectId \in IdValues, options \in OptionValues,
          researchers \in OrderingsOf(ResearchersWithUser) :
         \E whole \in {findMatchesForProject(projectId, options, researchers)} :
            \E failAt \in 0..Len(whole.queries) :
               \E call \in {Failing(whole, failAt)} :
                  /\ args' = <<"findMatchesForProject", projectId, options, failAt>>
                  /\ ret' = call.ret
                  /\ queries' = call.queries
                  /\ fetched' = call.fetched
    /\ pc' = "done"
    /\ UNCHANGED <<project, researcher, store, called, history>>

FindMatchesForResearcherFailing ==
    /\ pc = "ready"
    /\ \E researcherId \in IdValues, options \in OptionValues,
          projects \in OrderingsOf(CandidateProjects) :
         \E whole \in {findMatchesForResearcher(researcherId, options, projects)} :
            \E failAt \in 0..Len(whole.queries) :
               \E call \in {Failing(whole, failAt)} :
                  /\ args' = <<"findMatchesForResearcher", researcherId, options, failAt>>
                  /\ ret' = call.ret
                  /\ queries' = call.queries
                  /\ fetched' = call.fetched
    /\ pc' = "done"
    /\ UNCHANGED <<project, researcher, store, called, history>>

NextFailure == FindMatchesForProjectFailing \/ FindMatchesForResearcherFailing

SpecFailure == InitService /\ [][NextFailure]_vars

\* What the call returns when every fetch succeeds, for a given fetch order.
Complete(rows) ==
    IF args[1] = "findMatchesForProject"
    THEN findMatchesForProject(args[2], args[3], rows)
    ELSE findMatchesForResearcher(args[2], args[3], rows)

\* One of the fetches of the call failed.
FetchFailed == args[4] # 0

\* C24: a finder call ends with an error or with the complete filtered,
\* ranked and sliced result; when a fetch fails the call ends with that
\* failure and returns no match list.
C24_ErrorOrCompleteResult ==
    pc = "done" =>
        /\ IsError(ret) \/ ret = Complete(fetched).ret
        /\ FetchFailed => /\ ret = DataLayerError
                          /\ "matches" \notin DOMAIN ret
        /\ ~FetchFailed => /\ ret = Complete(fetched).ret
                           /\ queries = Complete(fetched).queries

\* The users fetch fails after two candidates were fetched: the call ends
\* with the failure.
C24_Witness ==
    /\ pc = "done"
    /\ FetchFailed
    /\ queries[Len(queries)] = "User.findAll"
    /\ Len(fetched) = 2
    /\ ret = DataLayerError

(***************************************************************************)
(* SpecTwice: a finder call, then the same call again on the same store.   *)
(***************************************************************************)
\* The orders in which the candidate fetch of the call in args can return
\* its rows: the queries of both finders have no ORDER BY.
CandidateOrderings ==
    OrderingsOf(IF args[1] = "findMatchesForProject"
                THEN ResearchersWithUser ELSE CandidateProjects)

\* The call in args is made a second time.
FindMatchesAgain ==
    /\ pc = "done"
    /\ history = <<>>
    /\ \E rows \in CandidateOrderings :
         \E call \in {Complete(rows)} :
            /\ ret' = call.ret
            /\ queries' = call.queries
            /\ fetched' = call.fetched
    /\ history' = <<ret>>
    /\ UNCHANGED <<project, researcher, args, pc, store, called>>

NextTwice == FindMatchesForProject \/ FindMatchesForResearcher \/ FindMatchesAgain

SpecTwice == InitService /\ [][NextTwice]_vars

\* C21: the second of two finder calls with the same id and options on an
\* unchanged store returns what the first returned: the same matches in the
\* same order with the same scores, tags and pagination.
C21_SameResultTwice ==
    (pc = "done" /\ history # <<>>) => ret = history[1]

(***************************************************************************)
(* SpecPages: the pages of a ranking, requested one call after the other.  *)
(***************************************************************************)
\* Options of a first page: offset 0 and a limit of at least 1.
FirstPageOptions == {o \in OptionValues : o.offset = 0 /\ o.limit >= 1}

FirstPageForProject == ProjectFinderCall(FirstPageOptions)

FirstPageForResearcher == ResearcherFinderCall(FirstPageOptions)

\* The page reported hasMore: the finder is called for the next offset.
NextPage ==
    /\ pc = "done"
    /\ ~IsError(ret)
    /\ ret.pagination.hasMore
    /\ \E rows \in CandidateOrderings,
          options \in {[args[3] EXCEPT !.offset = @ + args[3].limit]} :
         \E call \in {IF args[1] = "findMatchesForProject"
                      THEN findMatchesForProject(args[2], options, rows)
                      ELSE findMatchesForResearcher(args[2], options, rows)} :
            /\ args' = <<args[1], args[2], options>>
            /\ ret' = call.ret
            /\ queries' = call.queries
            /\ fetched' = call.fetched
    /\ history' = Append(history, ret.matches)
    /\ UNCHANGED <<project, researcher, pc, store, called>>

NextPages == FirstPageForProject \/ FirstPageForResearcher \/ NextPage

SpecPages == InitService /\ [][NextPages]_vars

RECURSIVE Flatten(_)
Flatten(pages) ==
    IF pages = <<>> THEN <<>> ELSE Head(pages) \o Flatten(Tail(pages))

\* The entries of every page requested so far, in the order of the requests.
Visited == Flatten(history) \o ret.matches

\* The candidate an entry stands for.
EntryId(entry) ==
    IF "researcher" \in DOMAIN entry THEN entry.researcher.user_id.v
    ELSE entry.project.project_id

\* C25: when a page reports hasMore = false, the pages requested at offsets
\* 0, L, 2L, ... hold every candidate with score >= minScore exactly once, in
\* rank order, pagination.total entries in all.
C25_PagesVisitEachOnce ==
    (Returned /\ ~ret.pagination.hasMore) =>
        /\ Len(Visited) = ret.pagination.total
        /\ {EntryId(Visited[i]) : i \in 1..Len(Visited)} = {c.id : c \in ReachingMinScore}
        /\ \A i, j \in 1..Len(Visited) :
               /\ (i # j) => EntryId(Visited[i]) # EntryId(Visited[j])
               /\ (i < j) => Visited[i].matchScore >= Visited[j].matchScore

(***************************************************************************)
(* SpecSession: several requests, one after the other, on one store.       *)
(***************************************************************************)
\* Requests of a session.
MaxCalls == 2

\* The response was sent; the next request of the session arrives.  What is
\* kept of a finished request is whether it succeeded.
NextRequest ==
    /\ pc = "done"
    /\ Len(history) < MaxCalls - 1
    /\ history' = Append(history, ret.status = 200)
    /\ pc' = "ready"
    /\ args' = NoArgs
    /\ ret' = Null
    /\ queries' = <<>>
    /\ fetched' = <<>>
    /\ called' = <<>>
    /\ UNCHANGED <<project, researcher, store>>

NextSession == GetProjectMatches \/ GetResearcherMatches \/ ExplainMatch \/ NextRequest

SpecSession == InitHttp /\ [][NextSession]_vars

\* C22: no project-matches, researcher-matches or explain request, succeeding
\* or failing, at any point of a session, changes the stored projects,
\* organizations, researcher profiles or users.
C22_StoreNeverWritten == [][store' = store]_vars

\* A request that succeeded after a request that failed, the store being what
\* it was before both.
C22_Witness ==
    /\ pc = "done"
    /\ history = <<FALSE>>
    /\ ret.status = 200
    /\ store = HttpStore

====
